---- MODULE Spec2Model ----
(***************************************************************************)
(* Model of the analytical core of the competition dashboard               *)
(* (src/app.py) and of its reclassification utility                        *)
(* (src/fix_activities.py).                                                *)
(*                                                                         *)
(* Conventions                                                             *)
(*  - A Python str is a sequence of one-character strings.  None in a      *)
(*    string column is the sequence None, which no str equals.             *)
(*  - A nullable number (a column that may hold None/NaN) is a sequence    *)
(*    of length at most one: << >> is null, <<n>> is the number n.         *)
(*  - A calendar date is an integer number of days; day 0 is               *)
(*    COMPETITION_START (Monday 2025-08-11), so weekday(d) = d % 7.        *)
(*  - A DataFrame is the sequence of its rows, a row a record; the set of   *)
(*    its column names is kept beside it, since pd.DataFrame() has none.   *)
(*  - A call that raises returns the exception raised, a value that no     *)
(*    frame equals.                                                        *)
(***************************************************************************)
EXTENDS Integers, Sequences, FiniteSets, TLC

VARIABLES
    COMPETITION_END,    \* configuration: last day of the competition
    COMPETITION_WEEKS,  \* configuration: number of competition weeks
    today,              \* datetime.now().date()
    activities,         \* store table "activities" (embedded athletes joined)
    heart_rate_zones,   \* store table "heart_rate_zones"
    activities_df,      \* frame returned by fetch_activities_by_date_range
    hr_zones_df,        \* frame returned by fetch_heart_rate_zones_by_date
    columns,            \* the column names of the two fetched frames
    admin,              \* the run of the reclassification utility
    out                 \* value returned by the last call, with what it read

vars == <<COMPETITION_END, COMPETITION_WEEKS, today, activities,
          heart_rate_zones, activities_df, hr_zones_df, columns, admin, out>>

(***************************************************************************)
(* Python values                                                           *)
(***************************************************************************)
None == <<"<None>">>
SQ == "'"
DQ == "\""

Ride == <<"R", "i", "d", "e">>
Run == <<"R", "u", "n">>
Peloton == <<"P", "e", "l", "o", "t", "o", "n">>
Bike == <<"B", "i", "k", "e">>
Tennis == <<"T", "e", "n", "n", "i", "s">>
Treadmill == <<"T", "r", "e", "a", "d", "m", "i", "l", "l">>
VirtualRide == <<"V", "i", "r", "t", "u", "a", "l", "R", "i", "d", "e">>
Swim == <<"S", "w", "i", "m">>
Root == <<"r", "o", "o", "t", "=">>

isinstance_str(value) == value # None

\* str.startswith / str.endswith
startswith(s, p) == Len(s) >= Len(p) /\ SubSeq(s, 1, Len(p)) = p
endswith(s, p) == Len(s) >= Len(p) /\ SubSeq(s, Len(s) - Len(p) + 1, Len(s)) = p
\* s[i:] and s[i:-1] for i >= 0
slice_from(s, i) == SubSeq(s, i + 1, Len(s))
slice_inner(s, i) == SubSeq(s, i + 1, Len(s) - 1)

\* nullable numbers
IsNull(x) == x = << >>
\* Series.fillna(0)
fillna0(x) == IF IsNull(x) THEN 0 ELSE x[1]
\* elementwise  x > 0  (False on NaN/None)
gt0(x) == ~IsNull(x) /\ x[1] > 0

(***************************************************************************)
(* Record Normalizer: clean_field of fetch_activities_by_date_range        *)
(***************************************************************************)
\* clean_field_unwrap with the quoted forms cut one character early
clean_field_unwrap_cut5(value) ==
    IF startswith(value, Root \o <<SQ>>) /\ endswith(value, <<SQ>>)
    THEN slice_inner(value, 5)
    ELSE IF startswith(value, Root \o <<DQ>>) /\ endswith(value, <<DQ>>)
    THEN slice_inner(value, 5)
    ELSE IF startswith(value, Root)
    THEN slice_from(value, 5)
    ELSE value

\* the "Remove various root= formats" part of clean_field
clean_field_unwrap(value) ==
    IF startswith(value, Root \o <<SQ>>) /\ endswith(value, <<SQ>>)
    THEN slice_inner(value, 6)
    ELSE IF startswith(value, Root \o <<DQ>>) /\ endswith(value, <<DQ>>)
    THEN slice_inner(value, 6)
    ELSE IF startswith(value, Root)
    THEN LET cleaned == slice_from(value, 5)
         IN IF startswith(cleaned, <<SQ>>) /\ endswith(cleaned, <<SQ>>)
            THEN slice_inner(cleaned, 1)
            ELSE IF startswith(cleaned, <<DQ>>) /\ endswith(cleaned, <<DQ>>)
            THEN slice_inner(cleaned, 1)
            ELSE cleaned
    ELSE value

\* the "Apply specific replacements" part of clean_field
clean_field_replace(cleaned) ==
    IF cleaned = Ride THEN Peloton
    ELSE IF cleaned = Run THEN Run
    ELSE cleaned

clean_field(value) ==
    IF ~isinstance_str(value) THEN value
    ELSE clean_field_replace(clean_field_unwrap(value))

(***************************************************************************)
(* clean_sport_type of fix_activities.py (module level)                    *)
(***************************************************************************)
clean_sport_type_unwrap(value) ==
    IF startswith(value, Root \o <<SQ>>) /\ endswith(value, <<SQ>>)
    THEN slice_inner(value, 6)
    ELSE IF startswith(value, Root \o <<DQ>>) /\ endswith(value, <<DQ>>)
    THEN slice_inner(value, 6)
    ELSE IF startswith(value, Root)
    THEN LET cleaned == slice_from(value, 5)
         IN IF startswith(cleaned, <<SQ>>) /\ endswith(cleaned, <<SQ>>)
            THEN slice_inner(cleaned, 1)
            ELSE IF startswith(cleaned, <<DQ>>) /\ endswith(cleaned, <<DQ>>)
            THEN slice_inner(cleaned, 1)
            ELSE cleaned
    ELSE value

clean_sport_type(value) ==
    IF ~isinstance_str(value) THEN value
    ELSE LET cleaned == clean_sport_type_unwrap(value)
         IN IF cleaned = Ride THEN Peloton
            ELSE IF cleaned = Run THEN Run
            ELSE cleaned

(***************************************************************************)
(* clean_sport_type_admin of fix_existing_activities_admin (app.py) and    *)
(* the clean_sport_type nested in fix_existing_activities                  *)
(* (fix_activities.py)                                                     *)
(***************************************************************************)
\* the copy without the replacements
clean_sport_type_admin_unwrap_only(value) ==
    IF ~isinstance_str(value) THEN value
    ELSE IF startswith(value, Root \o <<SQ>>) /\ endswith(value, <<SQ>>)
    THEN slice_inner(value, 6)
    ELSE IF startswith(value, Root \o <<DQ>>) /\ endswith(value, <<DQ>>)
    THEN slice_inner(value, 6)
    ELSE IF startswith(value, Root)
    THEN slice_from(value, 5)
    ELSE value

clean_sport_type_admin(value) ==
    IF ~isinstance_str(value) THEN value
    ELSE LET cleaned ==
                 IF startswith(value, Root \o <<SQ>>) /\ endswith(value, <<SQ>>)
                 THEN slice_inner(value, 6)
                 ELSE IF startswith(value, Root \o <<DQ>>) /\ endswith(value, <<DQ>>)
                 THEN slice_inner(value, 6)
                 ELSE IF startswith(value, Root)
                 THEN LET cleaned5 == slice_from(value, 5)
                      IN IF startswith(cleaned5, <<SQ>>) /\ endswith(cleaned5, <<SQ>>)
                         THEN slice_inner(cleaned5, 1)
                         ELSE IF startswith(cleaned5, <<DQ>>)
                                 /\ endswith(cleaned5, <<DQ>>)
                         THEN slice_inner(cleaned5, 1)
                         ELSE cleaned5
                 ELSE value
         IN IF cleaned = Ride THEN Peloton
            ELSE IF cleaned = Run THEN Run
            ELSE cleaned

clean_sport_type_nested(value) ==
    IF ~isinstance_str(value) THEN value
    ELSE LET cleaned ==
                 IF startswith(value, Root \o <<SQ>>) /\ endswith(value, <<SQ>>)
                 THEN slice_inner(value, 6)
                 ELSE IF startswith(value, Root \o <<DQ>>) /\ endswith(value, <<DQ>>)
                 THEN slice_inner(value, 6)
                 ELSE IF startswith(value, Root)
                 THEN LET cleaned5 == slice_from(value, 5)
                      IN IF startswith(cleaned5, <<SQ>>) /\ endswith(cleaned5, <<SQ>>)
                         THEN slice_inner(cleaned5, 1)
                         ELSE IF startswith(cleaned5, <<DQ>>)
                                 /\ endswith(cleaned5, <<DQ>>)
                         THEN slice_inner(cleaned5, 1)
                         ELSE cleaned5
                 ELSE value
         IN IF cleaned = Ride THEN Peloton
            ELSE IF cleaned = Run THEN Run
            ELSE cleaned

(***************************************************************************)
(* Activity-name cleaning inside the heart-rate-zone join                  *)
(* (fetch_heart_rate_zones_by_date)                                        *)
(***************************************************************************)
hr_activity_name(activity_name) ==
    IF isinstance_str(activity_name)
    THEN IF startswith(activity_name, Root \o <<SQ>>) /\ endswith(activity_name, <<SQ>>)
         THEN LET cleaned == slice_inner(activity_name, 6)
              IN IF cleaned = Ride THEN Peloton
                 ELSE IF cleaned = Run THEN Treadmill
                 ELSE cleaned
         ELSE IF startswith(activity_name, Root)
         THEN LET cleaned == slice_from(activity_name, 5)
              IN IF cleaned = Ride THEN Peloton
                 ELSE IF cleaned = Run THEN Treadmill
                 ELSE cleaned
         ELSE activity_name
    ELSE activity_name

(***************************************************************************)
(* DataFrame helpers                                                       *)
(***************************************************************************)
Unknown == <<"U", "n", "k", "n", "o", "w", "n">>
NoneText == <<"N", "o", "n", "e">>
Space == " "

\* how an f-string renders a value
fstr(x) == IF x = None THEN NoneText ELSE x

\* str.strip()
RECURSIVE strip(_)
strip(s) ==
    IF Len(s) > 0 /\ s[1] = Space THEN strip(Tail(s))
    ELSE IF Len(s) > 0 /\ s[Len(s)] = Space THEN strip(SubSeq(s, 1, Len(s) - 1))
    ELSE s

\* rows of df in descending start_date order (rows of one date keep their order)
RECURSIVE order_desc(_)
order_desc(df) ==
    IF Len(df) <= 1 THEN df
    ELSE LET rest == order_desc(Tail(df))
             before == SelectSeq(rest, LAMBDA r : r.start_date > df[1].start_date)
             after == SelectSeq(rest, LAMBDA r : r.start_date <= df[1].start_date)
         IN before \o <<df[1]>> \o after

\* drop_duplicates keeping the last row of each activity_id
RECURSIVE drop_duplicates_keep_last(_)
drop_duplicates_keep_last(df) ==
    IF df = << >> THEN << >>
    ELSE IF \E j \in 2..Len(df) : df[j].activity_id = df[1].activity_id
    THEN drop_duplicates_keep_last(Tail(df))
    ELSE <<df[1]>> \o drop_duplicates_keep_last(Tail(df))

\* the pass that drops only the second row of each activity_id
RECURSIVE drop_second_loop(_, _)
drop_second_loop(df, i) ==
    IF i > Len(df) THEN << >>
    ELSE (IF Cardinality({j \in 1..(i - 1) :
                             df[j].activity_id = df[i].activity_id}) = 1
          THEN << >> ELSE <<df[i]>>)
         \o drop_second_loop(df, i + 1)

drop_duplicates_second_only(df) == drop_second_loop(df, 1)

\* DataFrame.drop_duplicates('activity_id', keep='first')
RECURSIVE drop_duplicates_loop(_, _, _, _)
drop_duplicates_loop(df, i, seen, kept) ==
    IF i > Len(df) THEN kept
    ELSE IF df[i].activity_id \in seen
    THEN drop_duplicates_loop(df, i + 1, seen, kept)
    ELSE drop_duplicates_loop(df, i + 1, seen \cup {df[i].activity_id},
                              Append(kept, df[i]))

drop_duplicates(df) == drop_duplicates_loop(df, 1, {}, << >>)

(***************************************************************************)
(* fetch_activities_by_date_range                                          *)
(***************************************************************************)
\* lambda x: f"{x['firstname']} {x['lastname']}" if x else "Unknown"
flatten_athlete(x) ==
    IF x # << >>
    THEN fstr(x[1].firstname) \o <<Space>> \o fstr(x[1].lastname)
    ELSE Unknown

\* the mask with  >= 0  in place of  > 0
mask_peloton_nonnegative(sport_type, total_elevation_gain) ==
    sport_type = Peloton /\ ~IsNull(total_elevation_gain)
                         /\ total_elevation_gain[1] >= 0

mask_peloton_with_elevation(sport_type, total_elevation_gain) ==
    sport_type = Peloton /\ gt0(total_elevation_gain)

fetch_activities_row(a) ==
    LET sport_type == clean_field(a.sport_type)
    IN [id |-> a.id,
        athlete_name |-> flatten_athlete(a.athletes),
        name |-> clean_field(a.name),
        sport_type |-> IF mask_peloton_with_elevation(sport_type,
                                                      a.total_elevation_gain)
                       THEN Bike ELSE sport_type,
        total_elevation_gain |-> a.total_elevation_gain,
        start_date |-> a.start_date,
        distance |-> a.distance]

fetch_activities_by_date_range(start_date, end_date) ==
    LET data == order_desc(SelectSeq(activities,
                     LAMBDA a : a.start_date >= start_date /\ a.start_date <= end_date))
        df == [i \in 1..Len(data) |-> fetch_activities_row(data[i])]
    IN SelectSeq(df, LAMBDA r : r.sport_type # Tennis)

\* the columns of the frame returned: those of the flattened rows when
\* response.data holds rows, none for the pd.DataFrame() returned otherwise
fetch_activities_columns(start_date, end_date) ==
    LET data == SelectSeq(activities,
                    LAMBDA a : a.start_date >= start_date /\ a.start_date <= end_date)
    IN IF data # << >> THEN DOMAIN fetch_activities_row(data[1]) ELSE {}

(***************************************************************************)
(* fetch_heart_rate_zones_by_date                                          *)
(***************************************************************************)
\* The embedded resource activities(...) of a heart_rate_zones row: the
\* activity the row refers to when it exists and its start_date passes the
\* two filters on activities.start_date, null (<< >>) otherwise.
embedded_activity(z, start_date, end_date) ==
    SelectSeq(activities, LAMBDA a : /\ a.id = z.activity_id
                                     /\ a.start_date >= start_date
                                     /\ a.start_date <= end_date)

\* one pass of the "Flatten nested data properly" loop; athlete_name None
\* is the column's initial value
flatten_hr_row(z, start_date, end_date) ==
    LET acts == embedded_activity(z, start_date, end_date)
        row == z   \* select("*"): every column of the heart_rate_zones row
    IN IF acts # << >>
       THEN row @@ [athlete_name |->
                        IF acts[1].athletes # << >>
                        THEN strip(fstr(acts[1].athletes[1].firstname) \o <<Space>>
                                   \o fstr(acts[1].athletes[1].lastname))
                        ELSE None,
                    activity_name |-> hr_activity_name(acts[1].name),
                    start_date |-> acts[1].start_date,
                    sport_type |-> acts[1].sport_type]
       ELSE row @@ [athlete_name |-> None,
                    activity_name |-> None,
                    start_date |-> None,
                    sport_type |-> None]

fetch_heart_rate_zones_by_date(start_date, end_date) ==
    LET df == [i \in 1..Len(heart_rate_zones) |->
                   flatten_hr_row(heart_rate_zones[i], start_date, end_date)]
        named == SelectSeq(df, LAMBDA r : r.athlete_name # None)
        kept == SelectSeq(named, LAMBDA r : r.sport_type # Tennis)
    IN drop_duplicates(kept)

\* the columns of the frame returned (the embedded filter on the activity
\* date removes no heart_rate_zones row from response.data)
fetch_heart_rate_zones_columns(start_date, end_date) ==
    IF heart_rate_zones # << >>
    THEN DOMAIN flatten_hr_row(heart_rate_zones[1], start_date, end_date)
    ELSE {}

(***************************************************************************)
(* calculate_hr_zone_points                                                *)
(*                                                                         *)
(* Points are floats in the code.  Here a row's and an athlete's points    *)
(* are kept exactly, in sixtieths of a point (the weighted seconds).       *)
(* DataFrame.round(0) rounds to the nearest integer; when the exact sum    *)
(* lies half way between two integers the float sum may lie on either      *)
(* side of the half, so either neighbour can be reported.                  *)
(***************************************************************************)
\* characters of athlete names in code-point order, for sorting the groups
CharOrder == <<" ", "A", "B", "C", "N", "U", "e", "k", "n", "o", "w">>
char_rank(c) == CHOOSE i \in 1..Len(CharOrder) : CharOrder[i] = c

\* a < b on str
RECURSIVE str_less(_, _)
str_less(a, b) ==
    IF b = << >> THEN FALSE
    ELSE IF a = << >> THEN TRUE
    ELSE IF a[1] = b[1] THEN str_less(Tail(a), Tail(b))
    ELSE char_rank(a[1]) < char_rank(b[1])

\* the group keys of groupby('athlete_name'), sorted
RECURSIVE sorted_keys(_)
sorted_keys(names) ==
    IF names = {} THEN << >>
    ELSE LET first == CHOOSE n \in names : \A m \in names \ {n} : str_less(n, m)
         IN <<first>> \o sorted_keys(names \ {first})

\* the rows scored: those with an athlete name, one per activity_id
scored_records(df) ==
    drop_duplicates(SelectSeq(df, LAMBDA r : r.athlete_name # None))

\* the two accepted names of the five zone columns
zone_seconds == <<"zone_1_seconds", "zone_2_seconds", "zone_3_seconds",
                  "zone_4_seconds", "zone_5_seconds">>
zone_time == <<"zone_1_time", "zone_2_time", "zone_3_time",
               "zone_4_time", "zone_5_time">>

\* the exceptions a call can end with
AttributeError == <<[raised |-> "AttributeError"]>>
KeyError == <<[raised |-> "KeyError"]>>
Raised(val) == val \in {AttributeError, KeyError}

\* df.get(zone_i_seconds, df.get(zone_i_time, 0)) is a column of df when df
\* has one of the two, and the int 0 otherwise
zone_get_is_column(df, i) ==
    zone_seconds[i] \in DOMAIN df[1] \/ zone_time[i] \in DOMAIN df[1]

\* the value of that column in row r
zone_get(r, i) ==
    IF zone_seconds[i] \in DOMAIN r THEN r[zone_seconds[i]] ELSE r[zone_time[i]]

\* .fillna(0) is called on what df.get returned: an int has no fillna
zone_points_raises(df) == \E i \in 1..5 : ~zone_get_is_column(df, i)

\* the row's points with every zone weighted 1
zone_points60_unweighted(r) ==
    fillna0(zone_get(r, 1)) + fillna0(zone_get(r, 2))
    + fillna0(zone_get(r, 3)) + fillna0(zone_get(r, 4))
    + fillna0(zone_get(r, 5))

\* df['zone_points'] of one row, times 60
zone_points60(r) ==
    fillna0(zone_get(r, 1)) * 1 + fillna0(zone_get(r, 2)) * 2
    + fillna0(zone_get(r, 3)) * 3 + fillna0(zone_get(r, 4)) * 4
    + fillna0(zone_get(r, 5)) * 5

\* the sum with one point more than the rows hold
RECURSIVE sum_zone_points60_from1(_)
sum_zone_points60_from1(df) ==
    IF df = << >> THEN 60
    ELSE zone_points60(df[1]) + sum_zone_points60_from1(Tail(df))

RECURSIVE sum_zone_points60(_)
sum_zone_points60(df) ==
    IF df = << >> THEN 0
    ELSE zone_points60(df[1]) + sum_zone_points60(Tail(df))

\* df.groupby('athlete_name').agg({'zone_points': 'sum', 'activity_id': 'count'})
groupby_athlete_name(df) ==
    LET keys == sorted_keys({df[i].athlete_name : i \in 1..Len(df)})
    IN [k \in 1..Len(keys) |->
           LET group == SelectSeq(df, LAMBDA r : r.athlete_name = keys[k])
           IN [athlete_name |-> keys[k],
               zone_points60 |-> sum_zone_points60(group),
               activity_count |-> Len(group)]]

\* .round(0) of a sum of x60 sixtieths; up decides an exact half
round0(x60, up) ==
    IF x60 % 60 = 30
    THEN (x60 \div 60) + (IF up THEN 1 ELSE 0)
    ELSE (x60 + 30) \div 60

\* the orders of the rows of df in which zone_points never increases
orders_desc(df) ==
    {p \in [1..Len(df) -> 1..Len(df)] :
        /\ \A i, j \in 1..Len(df) : p[i] = p[j] => i = j
        /\ \A i, j \in 1..Len(df) : i < j => df[p[i]].zone_points >= df[p[j]].zone_points}

\* sort_values('zone_points', ascending=False).  The default kind is
\* 'quicksort', which is not a stable sort: the rows come in descending
\* order of points, rows of equal points in any order.
sort_values_desc(df) ==
    {[i \in 1..Len(df) |-> df[p[i]]] :
        p \in orders_desc(df)}

\* the frame before the sort, for one way (ups) the exact halves round;
\* df holds a scored row
hr_zone_points_rounded(df, ups) ==
    LET grouped == groupby_athlete_name(scored_records(df))
    IN [k \in 1..Len(grouped) |->
           [athlete_name |-> grouped[k].athlete_name,
            zone_points |-> round0(grouped[k].zone_points60, ups[k]),
            activity_count |-> grouped[k].activity_count]]

\* what calculate_hr_zone_points(df) can return: the empty frame, the
\* exception of .fillna on an int, or the sorted frames
calculate_hr_zone_points(df) ==
    IF df = << >> THEN {<< >>}
    ELSE IF scored_records(df) = << >> THEN {<< >>}
    ELSE IF zone_points_raises(scored_records(df)) THEN {AttributeError}
    ELSE LET n == Len(groupby_athlete_name(scored_records(df)))
         IN UNION {sort_values_desc(hr_zone_points_rounded(df, ups)) :
                      ups \in [1..n -> BOOLEAN]}

(***************************************************************************)
(* calculate_athlete_streaks                                               *)
(***************************************************************************)
\* Series.drop_duplicates() on a column of dates
RECURSIVE dates_drop_duplicates(_)
dates_drop_duplicates(dates) ==
    IF dates = << >> THEN << >>
    ELSE LET front == SubSeq(dates, 1, Len(dates) - 1)
             last == dates[Len(dates)]
         IN IF \E i \in 1..Len(front) : front[i] = last
            THEN dates_drop_duplicates(front)
            ELSE Append(dates_drop_duplicates(front), last)

\* Series.sort_values(ascending=False) on a column of dates
RECURSIVE dates_sort_desc(_)
dates_sort_desc(dates) ==
    IF Len(dates) <= 1 THEN dates
    ELSE LET rest == dates_sort_desc(Tail(dates))
         IN SelectSeq(rest, LAMBDA d : d > dates[1]) \o <<dates[1]>>
            \o SelectSeq(rest, LAMBDA d : d <= dates[1])

\* the walk without the check of the most recent date against today
RECURSIVE streak_walk_any_gap(_, _, _, _)
streak_walk_any_gap(athlete_dates, i, expected_date, current_streak) ==
    IF i > Len(athlete_dates) THEN current_streak
    ELSE streak_walk_any_gap(athlete_dates, i + 1, expected_date - 1,
                             current_streak + 1)

\* the loop  for i in range(1, len(athlete_dates))  (i is 1-based here)
RECURSIVE streak_walk(_, _, _, _)
streak_walk(athlete_dates, i, expected_date, current_streak) ==
    IF i > Len(athlete_dates) THEN current_streak
    ELSE IF athlete_dates[i] = expected_date
    THEN streak_walk(athlete_dates, i + 1, expected_date - 1, current_streak + 1)
    ELSE current_streak

athlete_streak(df, athlete) ==
    LET rows == SelectSeq(df, LAMBDA r : r.athlete_name = athlete)
        athlete_dates == dates_sort_desc(dates_drop_duplicates(
                             [i \in 1..Len(rows) |-> rows[i].start_date]))
    IN IF athlete_dates = << >> THEN 0
       ELSE LET latest_activity == athlete_dates[1]
                days_since_last == today - latest_activity
            IN IF days_since_last > 1 THEN 0
               ELSE streak_walk(athlete_dates, 2, latest_activity - 1, 1)

\* the dict returned: athlete name -> streak
calculate_athlete_streaks(df) ==
    [athlete \in {df[i].athlete_name : i \in 1..Len(df)} |->
        athlete_streak(df, athlete)]

(***************************************************************************)
(* Competition Calendar                                                    *)
(***************************************************************************)
COMPETITION_START == 0
ShippedEnd == 55
ShippedWeeks == 8

\* date.weekday(): Monday is 0
weekday(d) == d % 7

\* the loop without the clipping of sunday to COMPETITION_END
RECURSIVE week_loop_unclipped(_, _, _)
week_loop_unclipped(week_num, current_monday, weeks) ==
    IF week_num > COMPETITION_WEEKS THEN weeks
    ELSE LET weeks1 == Append(weeks, [week |-> week_num,
                                      start |-> current_monday,
                                      end |-> current_monday + 6])
             next_monday == current_monday + 7
         IN IF next_monday > COMPETITION_END THEN weeks1
            ELSE week_loop_unclipped(week_num + 1, next_monday, weeks1)

\* the loop without the break once current_monday is past COMPETITION_END
RECURSIVE week_loop_no_break(_, _, _)
week_loop_no_break(week_num, current_monday, weeks) ==
    IF week_num > COMPETITION_WEEKS THEN weeks
    ELSE LET sunday0 == current_monday + 6
             sunday == IF sunday0 > COMPETITION_END THEN COMPETITION_END ELSE sunday0
             weeks1 == Append(weeks, [week |-> week_num,
                                      start |-> current_monday,
                                      end |-> sunday])
         IN week_loop_no_break(week_num + 1, current_monday + 7, weeks1)

RECURSIVE week_loop(_, _, _)
week_loop(week_num, current_monday, weeks) ==
    IF week_num > COMPETITION_WEEKS THEN weeks
    ELSE LET sunday0 == current_monday + 6
             sunday == IF sunday0 > COMPETITION_END THEN COMPETITION_END ELSE sunday0
             weeks1 == Append(weeks, [week |-> week_num,
                                      start |-> current_monday,
                                      end |-> sunday])
             next_monday == current_monday + 7
         IN IF next_monday > COMPETITION_END THEN weeks1
            ELSE week_loop(week_num + 1, next_monday, weeks1)

\* the 'label' of a week is display text and is left out of the descriptor
get_competition_week_dates == week_loop(1, COMPETITION_START, << >>)

\* f"Week {n}" and the two fixed status texts
WeekLabel(n) == [text |-> "Week", n |-> n]
TextLabel(t) == [text |-> t]

\* the week number counted from 0
get_current_competition_week_from0 ==
    IF today < COMPETITION_START
    THEN [week |-> 0, label |-> TextLabel("Pre-Competition")]
    ELSE IF today > COMPETITION_END
    THEN [week |-> COMPETITION_WEEKS + 1, label |-> TextLabel("Post-Competition")]
    ELSE LET current_week == (today - COMPETITION_START) \div 7
         IN [week |-> current_week, label |-> WeekLabel(current_week)]

get_current_competition_week ==
    IF today < COMPETITION_START
    THEN [week |-> 0, label |-> TextLabel("Pre-Competition")]
    ELSE IF today > COMPETITION_END
    THEN [week |-> COMPETITION_WEEKS + 1, label |-> TextLabel("Post-Competition")]
    ELSE LET days_since_start == today - COMPETITION_START
             current_week == (days_since_start \div 7) + 1
         IN IF current_week > COMPETITION_WEEKS
            THEN [week |-> COMPETITION_WEEKS + 1, label |-> TextLabel("Post-Competition")]
            ELSE [week |-> current_week, label |-> WeekLabel(current_week)]

\* the bounds taken from the calendar week everywhere
get_current_calendar_week_dates ==
    LET monday == today - weekday(today)
    IN <<monday, monday + 6>>

\* the bounds without the clipping of sunday to COMPETITION_END
get_current_competition_week_dates_unclipped ==
    IF today < COMPETITION_START \/ today > COMPETITION_END
    THEN LET monday == today - weekday(today)
         IN <<monday, monday + 6>>
    ELSE LET monday == COMPETITION_START + ((today - COMPETITION_START) \div 7) * 7
         IN <<monday, monday + 6>>

get_current_competition_week_dates ==
    IF today < COMPETITION_START \/ today > COMPETITION_END
    THEN LET monday == today - weekday(today)
             sunday == monday + 6
         IN <<monday, sunday>>
    ELSE LET days_since_start == today - COMPETITION_START
             current_week_num == days_since_start \div 7
             monday == COMPETITION_START + current_week_num * 7
             sunday0 == monday + 6
             sunday == IF sunday0 > COMPETITION_END THEN COMPETITION_END ELSE sunday0
         IN <<monday, sunday>>

(***************************************************************************)
(* calculate_weekly_athlete_performance                                    *)
(***************************************************************************)
\* the list of cycling sport types with Bike left out
CyclingTypesWithoutBike == {Ride, VirtualRide, Peloton}

\* isin(['Ride', 'VirtualRide', 'Peloton', 'Bike'])
CyclingTypes == {Ride, VirtualRide, Peloton, Bike}

RECURSIVE sum_distance(_)
sum_distance(df) ==
    IF df = << >> THEN 0 ELSE df[1].distance + sum_distance(Tail(df))

\* round(meters / 1609.344, 1), in tenths of a mile, to the nearest tenth.
\* A quotient halfway between two tenths needs an odd multiple of 50292
\* meters.
miles10(meters) == (meters * 10000 + 804672) \div 1609344

\* the week filter with the last day of the week left out
in_week_exclusive(date, week_info) ==
    date >= week_info.start /\ date < week_info.end

\* the week filter with the first day of the week left out
in_week_after_start(date, week_info) ==
    date > week_info.start /\ date <= week_info.end

\* (df['date'] >= week_start) & (df['date'] <= week_end)
in_week(date, week_info) ==
    date >= week_info.start /\ date <= week_info.end

\* the rows appended for one week, given the frame week_points that
\* calculate_hr_zone_points returned for it.  Cycling_Miles10 is
\* Cycling_Miles in tenths of a mile.
week_rows(week_info, week_points, week_activities) ==
    [k \in 1..Len(week_points) |->
        LET athlete == week_points[k].athlete_name
            athlete_activities ==
                SelectSeq(week_activities,
                          LAMBDA r : /\ r.athlete_name = athlete
                                     /\ r.sport_type \in CyclingTypes)
        IN [Week_Number |-> week_info.week,
            Athlete |-> athlete,
            Points |-> week_points[k].zone_points,
            Cycling_Miles10 |-> miles10(sum_distance(athlete_activities)),
            Activities |-> Len(SelectSeq(week_activities,
                                         LAMBDA r : r.athlete_name = athlete))]]

\* the frames the loop over competition_weeks[w..] can append
RECURSIVE weekly_loop(_, _, _, _)
weekly_loop(hr_df, act_df, competition_weeks, w) ==
    IF w > Len(competition_weeks) THEN {<< >>}
    ELSE LET week_info == competition_weeks[w]
             week_hr_data == SelectSeq(hr_df,
                                 LAMBDA r : in_week(r.start_date, week_info))
             week_activities == SelectSeq(act_df,
                                    LAMBDA r : in_week(r.start_date, week_info))
             rest == weekly_loop(hr_df, act_df, competition_weeks, w + 1)
         IN IF week_hr_data = << >> THEN rest
            ELSE IF calculate_hr_zone_points(week_hr_data) = {AttributeError}
            THEN {AttributeError}
            ELSE IF rest = {AttributeError} THEN rest
            ELSE {week_rows(week_info, week_points, week_activities) \o later :
                      week_points \in calculate_hr_zone_points(week_hr_data),
                      later \in rest}

\* What calculate_weekly_athlete_performance can return for the fetched
\* frames hr_df and act_df: the empty frame, the KeyError of
\* activities_df['start_date'] on a frame without columns, or the frames of
\* the loop.
calculate_weekly_athlete_performance(hr_df, act_df) ==
    IF hr_df = << >> THEN {<< >>}
    ELSE IF "start_date" \notin columns.hr_zones_df THEN {KeyError}
    ELSE IF "start_date" \notin columns.activities_df THEN {KeyError}
    ELSE weekly_loop(hr_df, act_df, get_competition_week_dates, 1)

(***************************************************************************)
(* Calls and their results                                                 *)
(***************************************************************************)
NoResult == [op |-> "none"]
NotFetched == <<[not_fetched |-> TRUE]>>
\* before any fetch no frame exists; pd.DataFrame() has no columns either
NoColumns == [activities_df |-> {}, hr_zones_df |-> {}]
\* the reclassification utility has not been run
NotStarted == [pc |-> "not started"]

\* bounds of the calendar: the largest week count and the days around the
\* longest window
MaxWeeks == 8
Margin == 9

\* the date ranges the dashboard asks the store for: everything, and
\* from the competition start on
MinDate == COMPETITION_START - Margin
MaxDate == COMPETITION_START + 7 * MaxWeeks + Margin
FetchRanges == {<<MinDate, MaxDate>>, <<COMPETITION_START, MaxDate>>}

FetchActivities ==
    /\ \E range \in FetchRanges :
          /\ activities_df' = fetch_activities_by_date_range(range[1], range[2])
          /\ columns' = [columns EXCEPT !.activities_df =
                             fetch_activities_columns(range[1], range[2])]
          /\ out' = [op |-> "fetch_activities_by_date_range", args |-> range]
    /\ UNCHANGED <<COMPETITION_END, COMPETITION_WEEKS, activities,
                   heart_rate_zones, today, hr_zones_df, admin>>

FetchHeartRateZones ==
    /\ \E range \in FetchRanges :
          /\ hr_zones_df' = fetch_heart_rate_zones_by_date(range[1], range[2])
          /\ columns' = [columns EXCEPT !.hr_zones_df =
                             fetch_heart_rate_zones_columns(range[1], range[2])]
          /\ out' = [op |-> "fetch_heart_rate_zones_by_date", args |-> range]
    /\ UNCHANGED <<COMPETITION_END, COMPETITION_WEEKS, activities,
                   heart_rate_zones, today, activities_df, admin>>

\* Configurations: the shipped one (ShippedEnd, ShippedWeeks) and every
\* other in which the end date falls no later than the last day of the last
\* week, so that the window is covered by the COMPETITION_WEEKS weeks.
Configs ==
    {c \in [end : COMPETITION_START..(COMPETITION_START + 7 * MaxWeeks - 1),
            weeks : 1..MaxWeeks] :
        c.end <= COMPETITION_START + 7 * c.weeks - 1}

TodayRange == (COMPETITION_START - Margin)..(COMPETITION_START + 7 * MaxWeeks + Margin)

CalendarInit ==
    /\ \E c \in Configs :
          /\ COMPETITION_END = c.end
          /\ COMPETITION_WEEKS = c.weeks
    /\ today \in TodayRange
    /\ activities = << >>
    /\ heart_rate_zones = << >>
    /\ activities_df = NotFetched
    /\ hr_zones_df = NotFetched
    /\ columns = NoColumns
    /\ admin = NotStarted
    /\ out = NoResult

frame == <<COMPETITION_END, COMPETITION_WEEKS, activities, heart_rate_zones,
           columns, admin>>

CallWeekDates ==
    /\ out' = [op |-> "get_competition_week_dates",
               val |-> get_competition_week_dates]
    /\ UNCHANGED <<frame, today, activities_df, hr_zones_df>>

CallCurrentWeek ==
    /\ out' = [op |-> "get_current_competition_week",
               val |-> get_current_competition_week]
    /\ UNCHANGED <<frame, today, activities_df, hr_zones_df>>

CallCurrentWeekDates ==
    /\ out' = [op |-> "get_current_competition_week_dates",
               val |-> get_current_competition_week_dates]
    /\ UNCHANGED <<frame, today, activities_df, hr_zones_df>>

\* midnight passes; the next render recomputes everything
NextDay ==
    /\ today + 1 \in TodayRange
    /\ today' = today + 1
    /\ out' = NoResult
    /\ UNCHANGED <<frame, activities_df, hr_zones_df>>

CalendarNext ==
    \/ CallWeekDates
    \/ CallCurrentWeek
    \/ CallCurrentWeekDates
    \/ NextDay

CalendarSpec == CalendarInit /\ [][CalendarNext]_vars

Min(a, b) == IF a <= b THEN a ELSE b
InWindow(d) == COMPETITION_START <= d /\ d <= COMPETITION_END

\* C4: weekDates() returns weeks in increasing, non-overlapping, contiguous
\* order: every week has start <= end, each week starts the day after the
\* previous week ends, and the last week ends no later than the
\* competition end (a short final week is clipped to the end date).
C4_WeeksContiguous ==
    out.op = "get_competition_week_dates" =>
        LET w == out.val
        IN /\ Len(w) >= 1
           /\ \A i \in 1..Len(w) :
                 /\ w[i].start <= w[i].end
                 /\ w[i].end = Min(w[i].start + 6, COMPETITION_END)
                 /\ i > 1 => w[i].start = w[i - 1].end + 1
           /\ w[Len(w)].end <= COMPETITION_END

\* a returned calendar of several weeks whose final week is clipped
C4_Witness ==
    /\ out.op = "get_competition_week_dates"
    /\ Len(out.val) >= 2
    /\ out.val[Len(out.val)].end < out.val[Len(out.val)].start + 6

\* C5: currentWeek(today) is (0, Pre-Competition) before the start,
\* (weekCount + 1, Post-Competition) after the end, and otherwise
\* (floor((today - start) / 7) + 1, "Week N") with N that number.
C5_CurrentWeek ==
    out.op = "get_current_competition_week" =>
        IF today < COMPETITION_START
        THEN out.val = [week |-> 0, label |-> [text |-> "Pre-Competition"]]
        ELSE IF today > COMPETITION_END
        THEN out.val = [week |-> COMPETITION_WEEKS + 1,
                        label |-> [text |-> "Post-Competition"]]
        ELSE LET n == ((today - COMPETITION_START) \div 7) + 1
             IN out.val = [week |-> n, label |-> [text |-> "Week", n |-> n]]

\* the call made inside the window, in a week after the first
C5_Witness ==
    /\ out.op = "get_current_competition_week"
    /\ InWindow(today)
    /\ out.val.week >= 2

\* C6: currentWeekBounds(today) is a pair (monday, sunday) around today;
\* inside the window monday is the start plus a multiple of 7 days and
\* sunday is min(monday + 6, end); outside it is the calendar week
\* (Monday to Sunday) containing today.
C6_CurrentWeekBounds ==
    out.op = "get_current_competition_week_dates" =>
        LET monday == out.val[1]
            sunday == out.val[2]
        IN /\ monday <= today /\ today <= sunday
           /\ IF InWindow(today)
              THEN /\ \E k \in 0..MaxWeeks : monday = COMPETITION_START + 7 * k
                   /\ sunday = Min(monday + 6, COMPETITION_END)
              ELSE /\ weekday(monday) = 0
                   /\ sunday = monday + 6

\* the call made in a clipped final week of the window
C6_Witness ==
    /\ out.op = "get_current_competition_week_dates"
    /\ InWindow(today)
    /\ out.val[2] < out.val[1] + 6

(***************************************************************************)
(* Record Normalizer specification: one stored activity with a raw name,   *)
(* a raw sport type and an elevation gain, one heart-rate-zone row of it,  *)
(* read through both fetch functions.                                      *)
(***************************************************************************)
MaxLen == 2

Categories == {Ride, Run, Peloton, Bike, Tennis, Swim}
QuoteAlphabet == {SQ, DQ, "a"}
ShortStrings == UNION {[1..n -> QuoteAlphabet] : n \in 0..MaxLen}
InnerValues == Categories \cup ShortStrings

\* the stored forms of an inner value: bare, root='v', root="v", root=v
Wrap(form, v) ==
    CASE form = 0 -> v
      [] form = 1 -> Root \o <<SQ>> \o v \o <<SQ>>
      [] form = 2 -> Root \o <<DQ>> \o v \o <<DQ>>
      [] form = 3 -> Root \o v

RawNames == {Wrap(f, v) : f \in 0..3, v \in InnerValues} \cup {None}
RawSportTypes == {Wrap(f, v) : f \in 0..3, v \in Categories} \cup {None}
Elevations == {<< >>, <<0>>, <<120>>}

AthleteA == <<[firstname |-> <<"A">>, lastname |-> <<"B">>]>>
ZoneRow(id, activity_id, z) ==
    [id |-> id, activity_id |-> activity_id,
     zone_1_seconds |-> z[1], zone_2_seconds |-> z[2], zone_3_seconds |-> z[3],
     zone_4_seconds |-> z[4], zone_5_seconds |-> z[5]]

NormalizerInit ==
    /\ COMPETITION_END = ShippedEnd
    /\ COMPETITION_WEEKS = ShippedWeeks
    /\ today = COMPETITION_START
    /\ \E name \in RawNames, sport_type \in RawSportTypes,
          total_elevation_gain \in Elevations :
          activities = <<[id |-> 1, athletes |-> AthleteA, name |-> name,
                          sport_type |-> sport_type,
                          total_elevation_gain |-> total_elevation_gain,
                          start_date |-> COMPETITION_START, distance |-> 0]>>
    /\ heart_rate_zones = <<ZoneRow(1, 1, <<<<600>>, <<0>>, <<0>>, <<0>>, <<0>>>>)>>
    /\ activities_df = NotFetched
    /\ hr_zones_df = NotFetched
    /\ columns = NoColumns
    /\ admin = NotStarted
    /\ out = NoResult

NormalizerNext ==
    \/ FetchActivities
    \/ FetchHeartRateZones

NormalizerSpec == NormalizerInit /\ [][NormalizerNext]_vars

\* the stored activity a fetched row was made from
Stored(id) == CHOOSE a \in {activities[i] : i \in 1..Len(activities)} : a.id = id
Rows(df) == IF df = NotFetched THEN {} ELSE {df[i] : i \in 1..Len(df)}

\* the category mapping as section 4.1 states it
CategoryMapping(v) == IF v = Ride THEN Peloton ELSE v
Reclassified(v, gain) ==
    IF CategoryMapping(v) = Peloton /\ gain # << >> /\ gain[1] > 0
    THEN Bike ELSE CategoryMapping(v)

\* C8: listActivities maps the unwrapped sport type Ride -> Peloton,
\* Run -> Run, anything else unchanged, and then reports Bike exactly for
\* a type that is already Bike or is Peloton with elevation gain > 0; a
\* Peloton record with elevation gain 0 or missing stays Peloton.
C8_SportTypeReported ==
    \A r \in Rows(activities_df) :
        \A f \in 0..3, v \in Categories :
            Wrap(f, v) = Stored(r.id).sport_type =>
                /\ r.sport_type = Reclassified(v, r.total_elevation_gain)
                /\ r.sport_type = Bike <=>
                       \/ CategoryMapping(v) = Bike
                       \/ CategoryMapping(v) = Peloton /\ gt0(r.total_elevation_gain)

\* a wrapped Ride with elevation gain was fetched and is reported as Bike
C8_Witness ==
    \E r \in Rows(activities_df) :
        /\ Stored(r.id).sport_type = Wrap(2, Ride)
        /\ r.total_elevation_gain = <<120>>
        /\ r.sport_type = Bike

\* v both starts and ends with the same quote character
Quoted(v) ==
    \E q \in {SQ, DQ} : startswith(v, <<q>>) /\ endswith(v, <<q>>)

\* C9 as stated: for every name listActivities cleaned, each of the forms
\* root='v', root="v" and root=v unwraps to exactly v, for every inner
\* value v, and a string without a root= wrapper is returned unchanged.
C9_UnwrapRecoversEveryValue ==
    \A r \in Rows(activities_df) :
        LET value == Stored(r.id).name
        IN isinstance_str(value) =>
            /\ \A f \in 1..3, v \in InnerValues :
                   Wrap(f, v) = value =>
                       /\ clean_field_unwrap(value) = v
                       /\ clean_sport_type_unwrap(value) = v
                       /\ r.name = CategoryMapping(v)
            /\ ~startswith(value, Root) =>
                   /\ clean_field_unwrap(value) = value
                   /\ clean_sport_type_unwrap(value) = value
                   /\ r.name = CategoryMapping(value)

\* C9 (amended): root='v' and root="v" unwrap to exactly v for every v;
\* root=v unwraps to v unless v itself starts and ends with a quote
\* character of the same kind (it is then read as the quoted form); a
\* string without a root= wrapper is returned unchanged.  The name
\* listActivities reports is the category mapping of that inner value.
C9_UnwrapRecoversValue ==
    \A r \in Rows(activities_df) :
        LET value == Stored(r.id).name
        IN isinstance_str(value) =>
            /\ \A f \in 1..3, v \in InnerValues :
                   (Wrap(f, v) = value /\ (f = 3 => ~Quoted(v))) =>
                       /\ clean_field_unwrap(value) = v
                       /\ clean_sport_type_unwrap(value) = v
                       /\ r.name = CategoryMapping(v)
            /\ ~startswith(value, Root) =>
                   /\ clean_field_unwrap(value) = value
                   /\ clean_sport_type_unwrap(value) = value
                   /\ r.name = CategoryMapping(value)

\* a name stored as root="a'" was fetched and reported as a'
C9_Witness ==
    \E r \in Rows(activities_df) :
        /\ Stored(r.id).name = Wrap(2, <<"a", SQ>>)
        /\ r.name = <<"a", SQ>>

\* C10: the activity name and sport type that listHeartRateZones reports
\* for an activity equal the name and sport type listActivities reports
\* for the same activity.
C10_SameNormalization ==
    \A r \in Rows(activities_df), z \in Rows(hr_zones_df) :
        r.id = z.activity_id =>
            /\ z.activity_name = r.name
            /\ z.sport_type = r.sport_type

(***************************************************************************)
(* Scoring specification: a store of four activities (two of athlete       *)
(* "A B", one of "B A", one without athlete) and up to MaxZoneRows         *)
(* heart-rate-zone rows, several of which may refer to the same activity.  *)
(***************************************************************************)
MaxZoneRows == 3

AthleteB == <<[firstname |-> <<"B">>, lastname |-> <<"A">>]>>
ScoringActivity(id, athletes) ==
    [id |-> id, athletes |-> athletes, name |-> Ride, sport_type |-> Ride,
     total_elevation_gain |-> <<0>>, start_date |-> COMPETITION_START,
     distance |-> 0]
ScoringActivities ==
    <<ScoringActivity(1, AthleteA), ScoringActivity(2, AthleteA),
      ScoringActivity(3, AthleteB), ScoringActivity(4, << >>)>>
ZoneActivityIds == {a.id : a \in {ScoringActivities[k] : k \in 1..Len(ScoringActivities)}}
\* 10 points; half a point; 127/60 points with one zone null
ZoneVectors ==
    {<<<<600>>, <<0>>, <<0>>, <<0>>, <<0>>>>,
     <<<<30>>, <<0>>, <<0>>, <<0>>, <<0>>>>,
     <<<<7>>, <<15>>, <<10>>, << >>, <<12>>>>}

ScoringInit ==
    /\ COMPETITION_END = ShippedEnd
    /\ COMPETITION_WEEKS = ShippedWeeks
    /\ today = COMPETITION_START
    /\ activities = ScoringActivities
    /\ \E n \in 0..MaxZoneRows :
          \E ids \in [1..n -> ZoneActivityIds], zs \in [1..n -> ZoneVectors] :
              heart_rate_zones = [i \in 1..n |-> ZoneRow(i, ids[i], zs[i])]
    /\ activities_df = NotFetched
    /\ hr_zones_df = NotFetched
    /\ columns = NoColumns
    /\ admin = NotStarted
    /\ out = NoResult

\* The frames calculate_hr_zone_points is given: the fetched frame, and the
\* joined frame as it stands before the fetch removes anything (rows
\* without athlete, duplicate rows), which its own guards have to handle.
joined_frame ==
    [i \in 1..Len(heart_rate_zones) |->
        flatten_hr_row(heart_rate_zones[i], MinDate, MaxDate)]
ScoringInputs ==
    {joined_frame} \cup (IF hr_zones_df = NotFetched THEN {} ELSE {hr_zones_df})

CalculateHrZonePoints ==
    /\ \E df \in ScoringInputs :
          \E val \in calculate_hr_zone_points(df) :
              out' = [op |-> "calculate_hr_zone_points", df |-> df,
                      scored |-> scored_records(df), val |-> val]
    /\ UNCHANGED <<frame, today, activities_df, hr_zones_df>>

ScoringNext ==
    \/ FetchHeartRateZones
    \/ CalculateHrZonePoints

ScoringSpec == ScoringInit /\ [][ScoringNext]_vars

\* seconds of a zone field, a null field counting as no time
Seconds(x) == IF x = << >> THEN 0 ELSE x[1]
WeightedSeconds(r) ==
    Seconds(r.zone_1_seconds) + 2 * Seconds(r.zone_2_seconds)
    + 3 * Seconds(r.zone_3_seconds) + 4 * Seconds(r.zone_4_seconds)
    + 5 * Seconds(r.zone_5_seconds)
\* row i is the first row of df with its activity identifier
FirstOfActivity(df, i) ==
    \A j \in 1..(i - 1) : df[j].activity_id # df[i].activity_id
RECURSIVE SumOver(_, _)
SumOver(df, indices) ==
    IF indices = {} THEN 0
    ELSE LET i == CHOOSE k \in indices : TRUE
         IN WeightedSeconds(df[i]) + SumOver(df, indices \ {i})
\* the rows of athlete a after deduplication by activity identifier
AthleteRecords(df, a) ==
    {i \in 1..Len(df) : df[i].athlete_name = a /\ FirstOfActivity(df, i)}
AthleteNames(df) == {df[i].athlete_name : i \in 1..Len(df)} \ {None}

\* C1: each athlete's reported total is the sum, over the athlete's records
\* after deduplication by activity identifier, of
\* (zone_1 s/60)*1 + ... + (zone_5 s/60)*5, rounded to the nearest whole
\* point; a single record with zone 1 = 600 s and nothing else gives 10.
C1_TotalPoints ==
    out.op = "calculate_hr_zone_points" =>
        /\ {out.val[k].athlete_name : k \in 1..Len(out.val)} = AthleteNames(out.df)
        /\ \A k, l \in 1..Len(out.val) :
               out.val[k].athlete_name = out.val[l].athlete_name => k = l
        /\ \A k \in 1..Len(out.val) :
               LET records == AthleteRecords(out.df, out.val[k].athlete_name)
                   exact60 == SumOver(out.df, records)
                   reported60 == 60 * out.val[k].zone_points
               IN /\ reported60 - exact60 <= 30
                  /\ exact60 - reported60 <= 30
                  /\ (\E i \in records :
                         /\ records = {i}
                         /\ out.df[i].zone_1_seconds = <<600>>
                         /\ WeightedSeconds(out.df[i]) = 600)
                     => out.val[k].zone_points = 10

\* scored: a frame with a duplicated activity, and an athlete with two
\* distinct activities whose total is more than one record's 10 points
C1_Witness ==
    /\ out.op = "calculate_hr_zone_points"
    /\ \E i, j \in 1..Len(out.df) :
          /\ i < j
          /\ out.df[i].activity_id = out.df[j].activity_id
          /\ out.df[i].athlete_name # None
          /\ WeightedSeconds(out.df[i]) # WeightedSeconds(out.df[j])
    /\ \E k \in 1..Len(out.val) :
          /\ Cardinality(AthleteRecords(out.df, out.val[k].athlete_name)) = 2
          /\ out.val[k].zone_points > 10

\* frame df holds at most one row per activity identifier, each the first
\* row of input with that identifier
FirstPerActivity(df, input) ==
    /\ \A i, j \in 1..Len(df) : df[i].activity_id = df[j].activity_id => i = j
    /\ \A i \in 1..Len(df) :
          \E k \in 1..Len(input) :
              /\ input[k].id = df[i].id
              /\ input[k].activity_id = df[i].activity_id
              /\ FirstOfActivity(input, k)

\* C2: the output of listHeartRateZones and the record set scored by
\* calculate_hr_zone_points hold at most one record per activity
\* identifier, and the record retained for an identifier is the first one
\* of the input with that identifier.
C2_OneRecordPerActivity ==
    /\ hr_zones_df # NotFetched => FirstPerActivity(hr_zones_df, heart_rate_zones)
    /\ out.op = "calculate_hr_zone_points" => FirstPerActivity(out.scored, out.df)

\* both deduplications have dropped a later row of a surviving activity
C2_Witness ==
    /\ hr_zones_df # NotFetched
    /\ Len(hr_zones_df) >= 1
    /\ \E k \in 2..Len(heart_rate_zones) :
          /\ heart_rate_zones[k].activity_id = hr_zones_df[1].activity_id
          /\ heart_rate_zones[k].id # hr_zones_df[1].id
    /\ out.op = "calculate_hr_zone_points"
    /\ Len(out.scored) >= 1
    /\ Len(out.scored) < Len(SelectSeq(out.df, LAMBDA r : r.athlete_name # None))

(***************************************************************************)
(* Streak specification: up to MaxActivities stored activities of two      *)
(* athletes on the days around today, fetched and then walked; days pass.  *)
(***************************************************************************)
MaxActivities == 3
StreakSpan == 2
StreakDays == 2

StreakDates == (COMPETITION_START - StreakSpan)..(COMPETITION_START + 1)
StreakActivity(id, athletes, start_date) ==
    [id |-> id, athletes |-> athletes, name |-> Run, sport_type |-> Run,
     total_elevation_gain |-> << >>, start_date |-> start_date, distance |-> 0]

StreakInit ==
    /\ COMPETITION_END = ShippedEnd
    /\ COMPETITION_WEEKS = ShippedWeeks
    /\ today = COMPETITION_START
    /\ \E n \in 0..MaxActivities :
          \E who \in [1..n -> {AthleteA, AthleteB}], day \in [1..n -> StreakDates] :
              activities = [i \in 1..n |-> StreakActivity(i, who[i], day[i])]
    /\ heart_rate_zones = << >>
    /\ activities_df = NotFetched
    /\ hr_zones_df = NotFetched
    /\ columns = NoColumns
    /\ admin = NotStarted
    /\ out = NoResult

CalculateAthleteStreaks ==
    /\ activities_df # NotFetched
    /\ out' = [op |-> "calculate_athlete_streaks", df |-> activities_df,
               val |-> IF activities_df = << >> THEN << >>
                       ELSE calculate_athlete_streaks(activities_df)]
    /\ UNCHANGED <<frame, today, activities_df, hr_zones_df>>

\* midnight passes while the fetched frame stays cached
StreakNextDay ==
    /\ today < COMPETITION_START + StreakDays
    /\ today' = today + 1
    /\ out' = NoResult
    /\ UNCHANGED <<frame, activities_df, hr_zones_df>>

StreakNext ==
    \/ FetchActivities
    \/ CalculateAthleteStreaks
    \/ StreakNextDay

StreakSpec == StreakInit /\ [][StreakNext]_vars

\* the distinct activity dates of an athlete in a frame
ActivityDates(df, athlete) ==
    {df[i].start_date : i \in {j \in 1..Len(df) : df[j].athlete_name = athlete}}
MostRecent(dates) == CHOOSE d \in dates : \A e \in dates : e <= d
\* length of the maximal run of consecutive days of dates ending at last
RunEndingAt(dates, last) ==
    CHOOSE n \in 1..Cardinality(dates) :
        /\ \A k \in 0..(n - 1) : (last - k) \in dates
        /\ (last - n) \notin dates

\* C3: an athlete whose most recent activity date is more than 1 day before
\* today has streak 0; otherwise the streak is the length (at least 1) of
\* the maximal run of consecutive days ending at the most recent activity
\* date, over the distinct dates.  {today, today-1, today-2} gives 3,
\* {today-3} alone gives 0, {today-1} alone gives 1.
C3_Streak ==
    out.op = "calculate_athlete_streaks" =>
        /\ DOMAIN out.val = {out.df[i].athlete_name : i \in 1..Len(out.df)}
        /\ \A athlete \in DOMAIN out.val :
               LET dates == ActivityDates(out.df, athlete)
                   latest == MostRecent(dates)
               IN /\ (today - latest > 1) => out.val[athlete] = 0
                  /\ (today - latest <= 1) =>
                         /\ out.val[athlete] >= 1
                         /\ out.val[athlete] = RunEndingAt(dates, latest)
                  /\ dates = {today, today - 1, today - 2} => out.val[athlete] = 3
                  /\ dates = {today - 3} => out.val[athlete] = 0
                  /\ dates = {today - 1} => out.val[athlete] = 1

\* one athlete with a run of 2 days ending today, another whose only
\* activity lies 3 days back
C3_Witness ==
    /\ out.op = "calculate_athlete_streaks"
    /\ \E a, b \in DOMAIN out.val :
          /\ ActivityDates(out.df, a) = {today, today - 1}
          /\ out.val[a] = 2
          /\ ActivityDates(out.df, b) = {today - 3}
          /\ out.val[b] = 0

\* the example of three consecutive days ending today
C3_ThreeDays ==
    /\ out.op = "calculate_athlete_streaks"
    /\ \E a \in DOMAIN out.val :
          /\ ActivityDates(out.df, a) = {today, today - 1, today - 2}
          /\ out.val[a] = 3

(***************************************************************************)
(* Weekly specification: the shipped calendar, up to MaxWeeklyActivities   *)
(* stored activities of two athletes on the days at the edges of the       *)
(* weeks and of the window, each with or without a heart-rate-zone row.    *)
(***************************************************************************)
MaxWeeklyActivities == 2

\* the day before the window, both ends of week 1, the start of week 2,
\* the last day of the window, the day after
WeeklyDates ==
    {COMPETITION_START - 1, COMPETITION_START, COMPETITION_START + 6,
     COMPETITION_START + 7, ShippedEnd, ShippedEnd + 1}
WeeklyActivity(id, athletes, start_date) ==
    [id |-> id, athletes |-> athletes, name |-> Ride, sport_type |-> Ride,
     total_elevation_gain |-> <<0>>, start_date |-> start_date,
     distance |-> 16093]
TenPoints == <<<<600>>, <<0>>, <<0>>, <<0>>, <<0>>>>

\* the heart-rate-zone rows of the activities i with telemetry[i]
RECURSIVE telemetry_rows(_, _)
telemetry_rows(n, telemetry) ==
    IF n = 0 THEN << >>
    ELSE telemetry_rows(n - 1, telemetry)
         \o (IF telemetry[n] THEN <<ZoneRow(n, n, TenPoints)>> ELSE << >>)

WeeklyInit ==
    /\ COMPETITION_END = ShippedEnd
    /\ COMPETITION_WEEKS = ShippedWeeks
    /\ today = COMPETITION_START
    /\ \E n \in 0..MaxWeeklyActivities :
          \E who \in [1..n -> {AthleteA, AthleteB}], day \in [1..n -> WeeklyDates],
             telemetry \in [1..n -> BOOLEAN] :
              /\ activities = [i \in 1..n |-> WeeklyActivity(i, who[i], day[i])]
              /\ heart_rate_zones = telemetry_rows(n, telemetry)
    /\ activities_df = NotFetched
    /\ hr_zones_df = NotFetched
    /\ columns = NoColumns
    /\ admin = NotStarted
    /\ out = NoResult

\* The columns of the two frames passed in, after the call:
\* hr_zones_df['date'] = ... and activities_df['date'] = ... are
\* assignments to the caller's frames; the second is not reached when the
\* first raises, neither when hr_zones_df is empty.  The rows keep their
\* fields: the new column repeats start_date as a date.
weekly_columns(hr_df, act_df) ==
    IF hr_df = << >> THEN columns
    ELSE IF "start_date" \notin columns.hr_zones_df THEN columns
    ELSE IF "start_date" \notin columns.activities_df
    THEN [columns EXCEPT !.hr_zones_df = @ \cup {"date"}]
    ELSE [hr_zones_df |-> columns.hr_zones_df \cup {"date"},
          activities_df |-> columns.activities_df \cup {"date"}]

CalculateWeeklyAthletePerformance ==
    /\ activities_df # NotFetched
    /\ hr_zones_df # NotFetched
    /\ \E val \in calculate_weekly_athlete_performance(hr_zones_df, activities_df) :
          out' = [op |-> "calculate_weekly_athlete_performance",
                  hr_df |-> hr_zones_df, act_df |-> activities_df, val |-> val]
    /\ columns' = weekly_columns(hr_zones_df, activities_df)
    /\ UNCHANGED <<COMPETITION_END, COMPETITION_WEEKS, activities,
                   heart_rate_zones, admin, today, activities_df, hr_zones_df>>

WeeklyNext ==
    \/ FetchActivities
    \/ FetchHeartRateZones
    \/ CalculateWeeklyAthletePerformance

WeeklySpec == WeeklyInit /\ [][WeeklyNext]_vars

\* athlete a has a heart-rate-zone record of df dated within week w
HasRecordInWeek(df, a, w) ==
    \E i \in 1..Len(df) :
        /\ df[i].athlete_name = a
        /\ df[i].start_date >= COMPETITION_START + 7 * (w - 1)
        /\ df[i].start_date <= Min(COMPETITION_START + 7 * w - 1, COMPETITION_END)
AllAthleteNames(hr_df, act_df) ==
    {hr_df[i].athlete_name : i \in 1..Len(hr_df)}
    \cup {act_df[i].athlete_name : i \in 1..Len(act_df)}

\* C7: the weekly output holds a row for (week w, athlete a) if and only if
\* a has at least one heart-rate-zone record dated within
\* [weekStart(w), weekEnd(w)], and at most one row per (week, athlete); an
\* athlete with activities but no heart-rate-zone record in a week gets
\* no row for that week.  Stated for the calls that return a frame.
C7_WeeklyRows ==
    (out.op = "calculate_weekly_athlete_performance" /\ ~Raised(out.val)) =>
        /\ \A k \in 1..Len(out.val) :
               /\ out.val[k].Week_Number \in 1..COMPETITION_WEEKS
               /\ HasRecordInWeek(out.hr_df, out.val[k].Athlete,
                                  out.val[k].Week_Number)
        /\ \A w \in 1..COMPETITION_WEEKS :
               \A a \in AllAthleteNames(out.hr_df, out.act_df) :
                   HasRecordInWeek(out.hr_df, a, w) =>
                       \E k \in 1..Len(out.val) :
                           /\ out.val[k].Week_Number = w
                           /\ out.val[k].Athlete = a
        /\ \A k, l \in 1..Len(out.val) :
               (/\ out.val[k].Week_Number = out.val[l].Week_Number
                /\ out.val[k].Athlete = out.val[l].Athlete) => k = l

\* week 1: one athlete has a record on its last day and gets the row,
\* the other has an activity in it without telemetry and gets none
C7_Witness ==
    /\ out.op = "calculate_weekly_athlete_performance"
    /\ ~Raised(out.val)
    /\ Len(out.val) = 1
    /\ out.val[1].Week_Number = 1
    /\ \E i \in 1..Len(out.hr_df) :
          /\ out.hr_df[i].athlete_name = out.val[1].Athlete
          /\ out.hr_df[i].start_date = COMPETITION_START + 6
    /\ \E j \in 1..Len(out.act_df) :
          /\ out.act_df[j].athlete_name # out.val[1].Athlete
          /\ out.act_df[j].start_date \in COMPETITION_START..(COMPETITION_START + 6)

(***************************************************************************)
(* Linearity specification: up to MaxLinearRows heart-rate-zone rows of    *)
(* the activities of two athletes, fetched, then scored twice: as they     *)
(* are, and with every zone time of one athlete doubled.                   *)
(***************************************************************************)
MaxLinearRows == 2

\* no time at all; 2/3 of a point; half a point; 10 points
ZeroPoints == <<<<0>>, <<0>>, <<0>>, <<0>>, <<0>>>>
LinearVectors ==
    {ZeroPoints,
     <<<<0>>, <<20>>, <<0>>, <<0>>, <<0>>>>,
     <<<<30>>, <<0>>, <<0>>, <<0>>, <<0>>>>,
     TenPoints}

LinearityInit ==
    /\ COMPETITION_END = ShippedEnd
    /\ COMPETITION_WEEKS = ShippedWeeks
    /\ today = COMPETITION_START
    /\ activities = ScoringActivities
    /\ \E n \in 0..MaxLinearRows :
          \E ids \in [1..n -> 1..3], zs \in [1..n -> LinearVectors] :
              heart_rate_zones = [i \in 1..n |-> ZoneRow(i, ids[i], zs[i])]
    /\ activities_df = NotFetched
    /\ hr_zones_df = NotFetched
    /\ columns = NoColumns
    /\ admin = NotStarted
    /\ out = NoResult

\* a nullable number doubled
Twice(x) == IF IsNull(x) THEN x ELSE <<2 * x[1]>>
\* df with the five zone times of every record of athlete doubled
DoubleZoneTimes(df, athlete) ==
    [i \in 1..Len(df) |->
        IF df[i].athlete_name = athlete
        THEN [df[i] EXCEPT !.zone_1_seconds = Twice(@),
                           !.zone_2_seconds = Twice(@),
                           !.zone_3_seconds = Twice(@),
                           !.zone_4_seconds = Twice(@),
                           !.zone_5_seconds = Twice(@)]
        ELSE df[i]]

\* the fetched frame is scored, and scored again with an athlete's zone
\* times doubled; sums are the athletes' sums before .round(0)
CalculateHrZonePointsDoubled ==
    /\ hr_zones_df # NotFetched
    /\ \E athlete \in {strip(flatten_athlete(AthleteA)),
                       strip(flatten_athlete(AthleteB))} :
          LET doubled == DoubleZoneTimes(hr_zones_df, athlete)
          IN \E val \in calculate_hr_zone_points(hr_zones_df),
                doubled_val \in calculate_hr_zone_points(doubled) :
                 out' = [op |-> "calculate_hr_zone_points twice",
                         df |-> hr_zones_df, athlete |-> athlete,
                         sums |-> groupby_athlete_name(scored_records(hr_zones_df)),
                         val |-> val,
                         doubled_sums |-> groupby_athlete_name(scored_records(doubled)),
                         doubled_val |-> doubled_val]
    /\ UNCHANGED <<frame, today, activities_df, hr_zones_df>>

LinearityNext ==
    \/ FetchHeartRateZones
    \/ CalculateHrZonePointsDoubled

LinearitySpec == LinearityInit /\ [][LinearityNext]_vars

\* every zone time of every record of df is zero
AllZero(df) ==
    \A i \in 1..Len(df) : \A z \in 1..5 : df[i][zone_seconds[z]] = <<0>>

\* C11 as stated: doubling all five zone times of every record of an
\* athlete doubles that athlete's reported points, and an input whose zone
\* times are all zero yields zero points.
C11_DoublingDoublesReported ==
    out.op = "calculate_hr_zone_points twice" =>
        /\ \A k \in 1..Len(out.val) :
              out.val[k].athlete_name = out.athlete =>
                  \E l \in 1..Len(out.doubled_val) :
                      /\ out.doubled_val[l].athlete_name = out.athlete
                      /\ out.doubled_val[l].zone_points = 2 * out.val[k].zone_points
        /\ AllZero(out.df) => \A k \in 1..Len(out.val) : out.val[k].zone_points = 0

\* C11 (amended): doubling all five zone times of every record of an
\* athlete doubles that athlete's sum of points before rounding and leaves
\* the other athletes' sums alone; the reported whole-point total of the
\* doubled input lies within one point of twice the total reported before;
\* an input whose zone times are all zero yields zero points.
C11_DoublingDoublesSum ==
    out.op = "calculate_hr_zone_points twice" =>
        /\ Len(out.doubled_sums) = Len(out.sums)
        /\ \A k \in 1..Len(out.sums) :
              /\ out.doubled_sums[k].athlete_name = out.sums[k].athlete_name
              /\ out.doubled_sums[k].zone_points60 =
                     IF out.sums[k].athlete_name = out.athlete
                     THEN 2 * out.sums[k].zone_points60
                     ELSE out.sums[k].zone_points60
        /\ \A k \in 1..Len(out.val) :
              out.val[k].athlete_name = out.athlete =>
                  \E l \in 1..Len(out.doubled_val) :
                      /\ out.doubled_val[l].athlete_name = out.athlete
                      /\ out.doubled_val[l].zone_points - 2 * out.val[k].zone_points
                             \in {-1, 0, 1}
        /\ AllZero(out.df) => \A k \in 1..Len(out.val) : out.val[k].zone_points = 0

\* an athlete with a positive total whose doubled records are reported
\* with another total than twice the first, beside an athlete left alone
C11_Witness ==
    /\ out.op = "calculate_hr_zone_points twice"
    /\ Len(out.val) = 2
    /\ \E k \in 1..Len(out.val), l \in 1..Len(out.doubled_val) :
          /\ out.val[k].athlete_name = out.athlete
          /\ out.doubled_val[l].athlete_name = out.athlete
          /\ out.val[k].zone_points > 0
          /\ out.doubled_val[l].zone_points # 2 * out.val[k].zone_points

\* all zone times zero, and the athlete scored is reported with 0 points
C11_ZeroWitness ==
    /\ out.op = "calculate_hr_zone_points twice"
    /\ Len(out.df) = 2
    /\ AllZero(out.df)
    /\ \E k \in 1..Len(out.val) : out.val[k].zone_points = 0

(***************************************************************************)
(* Reclassification utility (fix_activities.py main; the dashboard's       *)
(* fix_existing_activities_admin runs the same steps behind a button).     *)
(* The run is the record admin: its position pc, the candidates            *)
(* with_elevation, the index i of the next candidate, the two counters,    *)
(* and a log of the ids attempted and of what the store answered.          *)
(***************************************************************************)
MaxAdminActivities == 3
MaxAdminRuns == 2

\* the candidates whatever their elevation gain
with_elevation_or_without(df) ==
    SelectSeq(df, LAMBDA a : clean_sport_type(a.sport_type) = Peloton)

\* df[df['cleaned_sport_type'] == 'Peloton'] with has_elevation
with_elevation(df) ==
    SelectSeq(df, LAMBDA a : /\ clean_sport_type(a.sport_type) = Peloton
                              /\ fillna0(a.total_elevation_gain) > 0)

\* what .update({'sport_type': 'Bike'}).eq('id', id).execute() can do: answer
\* with the updated row, answer with no data, or raise; a call that raised
\* may or may not have reached the store
StoreResponses == {"data", "no data", "raised", "raised after the update"}

\* the update that writes Ride
update_sport_type_as_ride(table, id) ==
    [k \in 1..Len(table) |->
        IF table[k].id = id THEN [table[k] EXCEPT !.sport_type = Ride]
        ELSE table[k]]

\* the update without  .eq('id', id)
update_sport_type_all_rows(table, id) ==
    [k \in 1..Len(table) |-> [table[k] EXCEPT !.sport_type = Bike]]

\* the table after the update of row id
update_sport_type(table, id) ==
    [k \in 1..Len(table) |->
        IF table[k].id = id THEN [table[k] EXCEPT !.sport_type = Bike]
        ELSE table[k]]

\* the loop body that gives up at the first exception
admin_update_row_abort(adm, response) ==
    IF response = "data"
    THEN [adm EXCEPT !.updated_count = @ + 1, !.i = @ + 1,
                     !.attempted = Append(@, adm.with_elevation[adm.i].id),
                     !.responses = Append(@, response)]
    ELSE IF response = "no data"
    THEN [adm EXCEPT !.failed_count = @ + 1, !.i = @ + 1,
                     !.attempted = Append(@, adm.with_elevation[adm.i].id),
                     !.responses = Append(@, response)]
    ELSE [adm EXCEPT !.failed_count = @ + 1, !.i = Len(adm.with_elevation) + 1,
                     !.attempted = Append(@, adm.with_elevation[adm.i].id),
                     !.responses = Append(@, response)]

\* one pass of  for _, row in with_elevation.iterrows()
admin_update_row(adm, response) ==
    IF response = "data"
    THEN [adm EXCEPT !.updated_count = @ + 1, !.i = @ + 1,
                     !.attempted = Append(@, adm.with_elevation[adm.i].id),
                     !.responses = Append(@, response)]
    ELSE [adm EXCEPT !.failed_count = @ + 1, !.i = @ + 1,
                     !.attempted = Append(@, adm.with_elevation[adm.i].id),
                     !.responses = Append(@, response)]

\* the runs that ended before this one, oldest first
previous_runs(adm) ==
    IF "previous" \in DOMAIN adm THEN adm.previous ELSE << >>

\* from the start to the question: the table is read into df and the
\* candidates are selected; the run ends here when there is nothing to
\* change
AdminStart ==
    /\ admin.pc = "not started"
    /\ \E variant \in {"fix_activities.main", "fix_existing_activities_admin"} :
          admin' = IF activities = << >> \/ with_elevation(activities) = << >>
                   THEN [pc |-> "returned", variant |-> variant,
                         df |-> activities, previous |-> previous_runs(admin)]
                   ELSE [pc |-> "confirm", variant |-> variant,
                         df |-> activities, previous |-> previous_runs(admin),
                         with_elevation |-> with_elevation(activities)]
    /\ UNCHANGED <<COMPETITION_END, COMPETITION_WEEKS, today, activities,
                   heart_rate_zones, activities_df, hr_zones_df, columns, out>>

\* every answer but a plain no goes on
confirmed_unless_no(response) == response \notin {"n", "N"}

\* str.lower() of an answer
lower(response) == IF response = "Y" THEN "y" ELSE response

\* not (response.lower() != 'y')
confirmed(response) == lower(response) = "y"

\* the operator answers the question (or presses the button, or does not)
AdminConfirm ==
    /\ admin.pc = "confirm"
    /\ \E response \in {"y", "Y", "n", ""} :
          admin' = IF confirmed(response)
                   THEN [pc |-> "update", variant |-> admin.variant,
                         df |-> admin.df, previous |-> admin.previous,
                         response_lower |-> lower(response),
                         with_elevation |-> admin.with_elevation,
                         i |-> 1, updated_count |-> 0, failed_count |-> 0,
                         attempted |-> << >>, responses |-> << >>]
                   ELSE [pc |-> "cancelled", variant |-> admin.variant,
                         df |-> admin.df, previous |-> admin.previous,
                         response_lower |-> lower(response),
                         with_elevation |-> admin.with_elevation]
    /\ UNCHANGED <<COMPETITION_END, COMPETITION_WEEKS, today, activities,
                   heart_rate_zones, activities_df, hr_zones_df, columns, out>>

AdminUpdate ==
    /\ admin.pc = "update"
    /\ admin.i <= Len(admin.with_elevation)
    /\ \E response \in StoreResponses :
          /\ admin' = admin_update_row(admin, response)
          /\ activities' = IF response \in {"data", "raised after the update"}
                           THEN update_sport_type(activities,
                                                  admin.with_elevation[admin.i].id)
                           ELSE activities
    /\ UNCHANGED <<COMPETITION_END, COMPETITION_WEEKS, today,
                   heart_rate_zones, activities_df, hr_zones_df, columns, out>>

\* the loop is over: "Update complete!" and the two counts
AdminSummary ==
    /\ admin.pc = "update"
    /\ admin.i > Len(admin.with_elevation)
    /\ admin' = [admin EXCEPT !.pc = "summary"]
    /\ UNCHANGED <<COMPETITION_END, COMPETITION_WEEKS, today, activities,
                   heart_rate_zones, activities_df, hr_zones_df, columns, out>>

\* the table is read again and its distribution shown
AdminVerify ==
    /\ admin.pc = "summary"
    /\ admin' = [admin EXCEPT !.pc = "verified"]
    /\ UNCHANGED <<COMPETITION_END, COMPETITION_WEEKS, today, activities,
                   heart_rate_zones, activities_df, hr_zones_df, columns, out>>

\* the utility is started again after a run that ended
AdminRunAgain ==
    /\ admin.pc \in {"returned", "cancelled", "verified"}
    /\ Len(admin.previous) < MaxAdminRuns - 1
    /\ admin' = [pc |-> "not started", previous |-> Append(admin.previous, admin)]
    /\ UNCHANGED <<COMPETITION_END, COMPETITION_WEEKS, today, activities,
                   heart_rate_zones, activities_df, hr_zones_df, columns, out>>

\* the stored activities of the utility's runs: raw and wrapped rides and
\* runs, with, without and with unknown elevation gain
AdminSportTypes == {Ride, Wrap(1, Ride), Run}
AdminActivity(id, sport_type, total_elevation_gain) ==
    [id |-> id, athletes |-> AthleteA, name |-> Ride, sport_type |-> sport_type,
     total_elevation_gain |-> total_elevation_gain,
     start_date |-> COMPETITION_START, distance |-> 0]

AdminInit ==
    /\ COMPETITION_END = ShippedEnd
    /\ COMPETITION_WEEKS = ShippedWeeks
    /\ today = COMPETITION_START
    /\ \E n \in 0..MaxAdminActivities :
          \E st \in [1..n -> AdminSportTypes], gain \in [1..n -> Elevations] :
              activities = [k \in 1..n |-> AdminActivity(k, st[k], gain[k])]
    /\ heart_rate_zones = << >>
    /\ activities_df = NotFetched
    /\ hr_zones_df = NotFetched
    /\ columns = NoColumns
    /\ admin = NotStarted
    /\ out = NoResult

AdminNext ==
    \/ AdminStart
    \/ AdminConfirm
    \/ AdminUpdate
    \/ AdminSummary
    \/ AdminVerify

AdminSpec == AdminInit /\ [][AdminNext]_vars

\* the utility is one sequential program: a loop pass that can be taken is
\* taken (every store call returns or raises), and so is the summary
AdminLiveSpec ==
    AdminSpec /\ WF_vars(AdminUpdate) /\ WF_vars(AdminSummary)

\* the number of entries of a log equal to value
RECURSIVE CountOf(_, _)
CountOf(log, value) ==
    IF log = << >> THEN 0
    ELSE (IF log[1] = value THEN 1 ELSE 0) + CountOf(Tail(log), value)

\* at the completion summary: the candidates were attempted once each, in
\* order, and the two counters add up
AdminCounted ==
    admin.pc \in {"summary", "verified"} =>
        /\ admin.attempted =
               [k \in 1..Len(admin.with_elevation) |-> admin.with_elevation[k].id]
        /\ admin.updated_count + admin.failed_count = Len(admin.with_elevation)
        /\ admin.updated_count = CountOf(admin.responses, "data")

\* C12: once the operator confirms, every candidate is attempted exactly
\* once, in order, whether or not earlier updates failed (no data, or an
\* exception); the run always reaches its completion summary, and there
\* updated_count + failed_count is the number of candidates and
\* updated_count the number of updates the store acknowledged.
C12_EveryCandidateAttempted ==
    /\ [](AdminCounted)
    /\ [](admin.pc = "update" =>
             /\ admin.i = Len(admin.attempted) + 1
             /\ \A k \in 1..Len(admin.attempted) :
                    admin.attempted[k] = admin.with_elevation[k].id)
    /\ (admin.pc = "update") ~> (admin.pc = "summary")

\* a summary after a run of three candidates in which the first update
\* raised, the second returned no data and the third was acknowledged
C12_Witness ==
    /\ admin.pc = "summary"
    /\ Len(admin.with_elevation) = 3
    /\ admin.responses = <<"raised", "no data", "data">>
    /\ admin.updated_count = 1
    /\ admin.failed_count = 2

(***************************************************************************)
(* Zone-column specification: the heart_rate_zones table carries each of   *)
(* the five zone columns under the name zone_i_seconds, under the name     *)
(* zone_i_time, or not at all; up to MaxSchemaRows rows, with null fields. *)
(***************************************************************************)
MaxSchemaRows == 1

Schemas == [1..5 -> {"seconds", "time", "absent"}]
\* the zone column names of a table with the given schema
SchemaColumns(schema) ==
    {zone_seconds[i] : i \in {j \in 1..5 : schema[j] = "seconds"}}
    \cup {zone_time[i] : i \in {j \in 1..5 : schema[j] = "time"}}
\* the zone a column name belongs to
ZoneOf(column) ==
    CHOOSE i \in 1..5 : column \in {zone_seconds[i], zone_time[i]}
SchemaRow(id, activity_id, z, schema) ==
    [column \in {"id", "activity_id"} \cup SchemaColumns(schema) |->
        IF column = "id" THEN id
        ELSE IF column = "activity_id" THEN activity_id
        ELSE z[ZoneOf(column)]]
\* 10 points; 127/60 points with zone 4 null
SchemaVectors ==
    {TenPoints, <<<<7>>, <<15>>, <<10>>, << >>, <<12>>>>}

ZoneColumnInit ==
    /\ COMPETITION_END = ShippedEnd
    /\ COMPETITION_WEEKS = ShippedWeeks
    /\ today = COMPETITION_START
    /\ activities = ScoringActivities
    /\ \E schema \in Schemas, n \in 0..MaxSchemaRows :
          \E ids \in [1..n -> {1, 3}], zs \in [1..n -> SchemaVectors] :
              heart_rate_zones =
                  [i \in 1..n |-> SchemaRow(i, ids[i], zs[i], schema)]
    /\ activities_df = NotFetched
    /\ hr_zones_df = NotFetched
    /\ columns = NoColumns
    /\ admin = NotStarted
    /\ out = NoResult

ZoneColumnNext ==
    \/ FetchHeartRateZones
    \/ CalculateHrZonePoints

ZoneColumnSpec == ZoneColumnInit /\ [][ZoneColumnNext]_vars

\* the seconds of zone i of record r: a null field, or one absent under
\* both names, counting as no time
FieldSeconds(r, i) ==
    IF zone_seconds[i] \in DOMAIN r THEN Seconds(r[zone_seconds[i]])
    ELSE IF zone_time[i] \in DOMAIN r THEN Seconds(r[zone_time[i]])
    ELSE 0
FieldWeightedSeconds(r) ==
    FieldSeconds(r, 1) + 2 * FieldSeconds(r, 2) + 3 * FieldSeconds(r, 3)
    + 4 * FieldSeconds(r, 4) + 5 * FieldSeconds(r, 5)
RECURSIVE FieldSumOver(_, _)
FieldSumOver(df, indices) ==
    IF indices = {} THEN 0
    ELSE LET i == CHOOSE k \in indices : TRUE
         IN FieldWeightedSeconds(df[i]) + FieldSumOver(df, indices \ {i})
\* the reported totals are the sums with the missing fields as zero
TotalsWithMissingAsZero ==
    \A k \in 1..Len(out.val) :
        LET exact60 == FieldSumOver(out.df,
                           AthleteRecords(out.df, out.val[k].athlete_name))
            reported60 == 60 * out.val[k].zone_points
        IN reported60 - exact60 <= 30 /\ exact60 - reported60 <= 30

\* C13: for every record set in which a zone field is null, or absent
\* under both of the names zone_i_seconds and zone_i_time,
\* calculate_hr_zone_points counts that field as zero in the sum and does
\* not raise.
C13_NullOrAbsentIsZero ==
    out.op = "calculate_hr_zone_points" =>
        /\ out.val # AttributeError
        /\ TotalsWithMissingAsZero

\* the part that holds: when each zone has a column under one of the two
\* names, nothing is raised and null fields count as zero
NullFieldsAreZero ==
    (/\ out.op = "calculate_hr_zone_points"
     /\ out.df # << >>
     /\ \A i \in 1..5 : zone_get_is_column(out.df, i)) =>
        /\ out.val # AttributeError
        /\ TotalsWithMissingAsZero

\* a record with a null zone 4 under a schema with every zone present,
\* some under the name zone_i_time, was scored
NullFieldsWitness ==
    /\ out.op = "calculate_hr_zone_points"
    /\ Len(out.df) = 1
    /\ "zone_4_time" \in DOMAIN out.df[1]
    /\ out.df[1].zone_4_time = << >>
    /\ "zone_1_seconds" \in DOMAIN out.df[1]
    /\ out.val # AttributeError
    /\ Len(out.val) = 1
    /\ out.val[1].zone_points = 2

(***************************************************************************)
(* calculate_athlete_cycling_stats and calculate_weekly_mileage.           *)
(* Distances are kept in meters where the code divides by 1609.344.        *)
(***************************************************************************)
\* the current week as a week descriptor
current_week_info ==
    [start |-> get_current_competition_week_dates[1],
     end |-> get_current_competition_week_dates[2]]

\* weekly_hr_data of one athlete
athlete_weekly_hr_data(hr_df, athlete) ==
    IF hr_df = << >> \/ "athlete_name" \notin columns.hr_zones_df THEN << >>
    ELSE SelectSeq(hr_df, LAMBDA r : /\ r.athlete_name = athlete
                                     /\ in_week(r.start_date, current_week_info))

RECURSIVE sum_zone_points(_)
sum_zone_points(df) ==
    IF df = << >> THEN 0 ELSE df[1].zone_points + sum_zone_points(Tail(df))

\* the values stats[athlete] can take
athlete_cycling_stats(act_df, hr_df, athlete) ==
    LET athlete_activities == SelectSeq(act_df, LAMBDA r : r.athlete_name = athlete)
        cycling_activities == SelectSeq(athlete_activities,
                                        LAMBDA r : r.sport_type \in CyclingTypes)
        weekly_activities == SelectSeq(cycling_activities,
                                 LAMBDA r : in_week(r.start_date, current_week_info))
        weekly_hr_data == athlete_weekly_hr_data(hr_df, athlete)
        weekly_zone_points ==
            IF weekly_hr_data = << >> THEN {0}
            ELSE {sum_zone_points(weekly_points_df) :
                     weekly_points_df \in calculate_hr_zone_points(weekly_hr_data)}
    IN {[total_cycling_meters |-> sum_distance(cycling_activities),
         weekly_cycling_meters |-> sum_distance(weekly_activities),
         weekly_zone_points |-> points] : points \in weekly_zone_points}

\* calculate_hr_zone_points raises for some athlete's weekly_hr_data
cycling_stats_raises(act_df, hr_df) ==
    /\ act_df # << >>
    /\ \E athlete \in {act_df[i].athlete_name : i \in 1..Len(act_df)} :
           LET weekly_hr_data == athlete_weekly_hr_data(hr_df, athlete)
           IN /\ weekly_hr_data # << >>
              /\ calculate_hr_zone_points(weekly_hr_data) = {AttributeError}

\* the dicts calculate_athlete_cycling_stats can return when nothing raises
calculate_athlete_cycling_stats(act_df, hr_df) ==
    IF act_df = << >> THEN {<< >>}
    ELSE LET athletes == {act_df[i].athlete_name : i \in 1..Len(act_df)}
         IN {stats \in [athletes -> UNION {athlete_cycling_stats(act_df, hr_df, a) :
                                               a \in athletes}] :
                \A a \in athletes :
                    stats[a] \in athlete_cycling_stats(act_df, hr_df, a)}

\* round(meters / 1609.344, 2), in hundredths of a mile
miles100(meters) == (meters * 100000 + 804672) \div 1609344

\* the rows of the groups of groupby('sport_type'); a null sport_type forms
\* no group, 'count' counts the names that are not null.  The column Hours
\* is left out.
weekly_stats_rows(current_week) ==
    {[sport_type |-> sport_type,
      Miles100 |-> miles100(sum_distance(
                       SelectSeq(current_week, LAMBDA r : r.sport_type = sport_type))),
      Activities |-> Len(SelectSeq(current_week,
                         LAMBDA r : r.sport_type = sport_type /\ r.name # None))] :
        sport_type \in {current_week[i].sport_type : i \in 1..Len(current_week)} \ {None}}

\* the frames calculate_weekly_mileage can return: the groups in descending
\* order of Miles, groups of equal Miles in any order
calculate_weekly_mileage(act_df) ==
    IF act_df = << >> THEN {<< >>}
    ELSE LET current_week == SelectSeq(act_df,
                                 LAMBDA r : in_week(r.start_date, current_week_info))
             rows == weekly_stats_rows(current_week)
         IN IF current_week = << >> THEN {<< >>}
            ELSE {weekly_stats \in [1..Cardinality(rows) -> rows] :
                     /\ \A i, j \in 1..Cardinality(rows) :
                            weekly_stats[i] = weekly_stats[j] => i = j
                     /\ \A i, j \in 1..Cardinality(rows) :
                            i < j => weekly_stats[i].Miles100 >= weekly_stats[j].Miles100}

\* The columns of the two frames passed in, after the call:
\* activities_df['date'] = ... once the frame is not empty, and
\* hr_zones_df['date'] = ... in the loop over the athletes when
\* hr_zones_df is not empty and has the column athlete_name.
cycling_stats_columns(act_df, hr_df) ==
    IF act_df = << >> THEN columns
    ELSE [activities_df |-> columns.activities_df \cup {"date"},
          hr_zones_df |-> IF hr_df # << >> /\ "athlete_name" \in columns.hr_zones_df
                          THEN columns.hr_zones_df \cup {"date"}
                          ELSE columns.hr_zones_df]

CalculateAthleteCyclingStats ==
    /\ activities_df # NotFetched
    /\ hr_zones_df # NotFetched
    /\ IF cycling_stats_raises(activities_df, hr_zones_df)
       THEN out' = [op |-> "calculate_athlete_cycling_stats",
                    act_df |-> activities_df, hr_df |-> hr_zones_df,
                    raised |-> TRUE, val |-> AttributeError]
       ELSE \E val \in calculate_athlete_cycling_stats(activities_df, hr_zones_df) :
               out' = [op |-> "calculate_athlete_cycling_stats",
                       act_df |-> activities_df, hr_df |-> hr_zones_df,
                       raised |-> FALSE, val |-> val]
    /\ columns' = cycling_stats_columns(activities_df, hr_zones_df)
    /\ UNCHANGED <<COMPETITION_END, COMPETITION_WEEKS, activities,
                   heart_rate_zones, admin, today, activities_df, hr_zones_df>>

CalculateWeeklyMileage ==
    /\ activities_df # NotFetched
    /\ \E val \in calculate_weekly_mileage(activities_df) :
          out' = [op |-> "calculate_weekly_mileage",
                  act_df |-> activities_df, val |-> val]
    /\ UNCHANGED <<frame, today, activities_df, hr_zones_df>>

(***************************************************************************)
(* Empty-input specification: a store that is empty or holds one activity  *)
(* and into which the sync writes further activities with their            *)
(* heart-rate-zone rows, while the two fetched frames are cached each on   *)
(* its own; every calculation is run on the cached frames.                 *)
(***************************************************************************)
MaxSyncedActivities == 2

\* sport types as stored: a ride, and the excluded type bare and wrapped
SyncedSportTypes == {Ride, Tennis, Wrap(1, Tennis)}
SyncedActivity(id, sport_type) ==
    [id |-> id, athletes |-> AthleteA, name |-> Ride, sport_type |-> sport_type,
     total_elevation_gain |-> <<0>>, start_date |-> COMPETITION_START,
     distance |-> 1609]

EmptyInputInit ==
    /\ COMPETITION_END = ShippedEnd
    /\ COMPETITION_WEEKS = ShippedWeeks
    /\ today \in {COMPETITION_START, COMPETITION_START + 7}
    /\ activities = << >>
    /\ heart_rate_zones = << >>
    /\ activities_df = NotFetched
    /\ hr_zones_df = NotFetched
    /\ columns = NoColumns
    /\ admin = NotStarted
    /\ out = NoResult

\* the sync stores a new activity, with or without its heart-rate zones
SyncActivity ==
    /\ Len(activities) < MaxSyncedActivities
    /\ \E sport_type \in SyncedSportTypes, telemetry \in BOOLEAN :
          LET id == Len(activities) + 1
          IN /\ activities' = Append(activities, SyncedActivity(id, sport_type))
             /\ heart_rate_zones' =
                    IF telemetry
                    THEN Append(heart_rate_zones, ZoneRow(id, id, TenPoints))
                    ELSE heart_rate_zones
    /\ UNCHANGED <<COMPETITION_END, COMPETITION_WEEKS, today, activities_df,
                   hr_zones_df, columns, admin, out>>

EmptyInputNext ==
    \/ SyncActivity
    \/ FetchActivities
    \/ FetchHeartRateZones
    \/ CalculateHrZonePoints
    \/ CalculateWeeklyAthletePerformance
    \/ CalculateAthleteStreaks
    \/ CalculateAthleteCyclingStats
    \/ CalculateWeeklyMileage

EmptyInputSpec == EmptyInputInit /\ [][EmptyInputNext]_vars

\* C14: when the activity record set and/or the heart-rate-zone record set
\* is empty (as the fetch functions return it), none of
\* calculate_hr_zone_points, calculate_weekly_athlete_performance,
\* calculate_athlete_streaks, calculate_athlete_cycling_stats and
\* calculate_weekly_mileage raises, and each returns an empty result when
\* the record set it aggregates is empty.
C14_EmptyInputsNeverFail ==
    /\ (out.op = "calculate_hr_zone_points" /\ out.df = << >>) =>
           out.val = << >>
    /\ (out.op = "calculate_weekly_athlete_performance"
        /\ (out.hr_df = << >> \/ out.act_df = << >>)) =>
           /\ ~Raised(out.val)
           /\ out.hr_df = << >> => out.val = << >>
    /\ (out.op = "calculate_athlete_streaks" /\ out.df = << >>) =>
           out.val = << >>
    /\ (out.op = "calculate_athlete_cycling_stats"
        /\ (out.hr_df = << >> \/ out.act_df = << >>)) =>
           /\ ~out.raised
           /\ out.act_df = << >> => out.val = << >>
    /\ (out.op = "calculate_weekly_mileage" /\ out.act_df = << >>) =>
           out.val = << >>

\* the part that holds: every function but the weekly aggregator, and the
\* weekly aggregator whenever the activity frame has columns
EmptyInputsHandled ==
    (out.op = "calculate_weekly_athlete_performance"
         => "start_date" \in columns.activities_df)
    => C14_EmptyInputsNeverFail

\* the calls on empty frames that end well
EmptyInputsWitness ==
    /\ out.op = "calculate_athlete_cycling_stats"
    /\ out.hr_df = << >>
    /\ out.act_df # << >>
    /\ ~out.raised
    /\ DOMAIN out.val = {strip(flatten_athlete(AthleteA))}

(***************************************************************************)
(* Join specification: up to MaxJoinActivities stored activities whose     *)
(* athlete is resolved, missing, or has no name, whose sport type is the   *)
(* excluded one in every stored form, each with or without a               *)
(* heart-rate-zone row; a further row may refer to no stored activity.     *)
(***************************************************************************)
MaxJoinActivities == 1

\* an athletes row whose name columns are null, and one whose are empty
NullNameAthlete == <<[firstname |-> None, lastname |-> None]>>
EmptyNameAthlete == <<[firstname |-> << >>, lastname |-> << >>]>>
\* the embedded athlete of an activity; << >> when none is found
JoinAthletes == {AthleteA, << >>, NullNameAthlete, EmptyNameAthlete}
JoinSportTypes == {Run} \cup {Wrap(f, Tennis) : f \in 0..3}
JoinActivity(id, athletes, sport_type) ==
    [id |-> id, athletes |-> athletes, name |-> Run, sport_type |-> sport_type,
     total_elevation_gain |-> << >>, start_date |-> COMPETITION_START,
     distance |-> 1609]
\* the id of no stored activity
DanglingId == MaxJoinActivities + 1

JoinInit ==
    /\ COMPETITION_END = ShippedEnd
    /\ COMPETITION_WEEKS = ShippedWeeks
    /\ today = COMPETITION_START
    /\ \E n \in 0..MaxJoinActivities :
          \E who \in [1..n -> JoinAthletes], st \in [1..n -> JoinSportTypes],
             telemetry \in [1..n -> BOOLEAN], dangling \in BOOLEAN :
              /\ activities = [k \in 1..n |-> JoinActivity(k, who[k], st[k])]
              /\ heart_rate_zones =
                     telemetry_rows(n, telemetry)
                     \o (IF dangling
                         THEN <<ZoneRow(DanglingId, DanglingId, TenPoints)>>
                         ELSE << >>)
    /\ activities_df = NotFetched
    /\ hr_zones_df = NotFetched
    /\ columns = NoColumns
    /\ admin = NotStarted
    /\ out = NoResult

JoinNext ==
    \/ FetchActivities
    \/ FetchHeartRateZones
    \/ CalculateAthleteStreaks
    \/ CalculateAthleteCyclingStats

JoinSpec == JoinInit /\ [][JoinNext]_vars

\* the stored activities with the given id (one, or none)
StoredActivities(id) == {a \in {activities[k] : k \in 1..Len(activities)} : a.id = id}

\* C15: an activity whose athlete reference cannot be resolved never
\* appears in the output of listActivities, and so contributes no athlete
\* entry to the streaks or to the cycling statistics.
C15_UnresolvedActivityDropped ==
    /\ \A r \in Rows(activities_df) : Stored(r.id).athletes # << >>
    /\ out.op = "calculate_athlete_streaks" =>
           \A athlete \in DOMAIN out.val :
               \E a \in {activities[k] : k \in 1..Len(activities)} :
                   /\ a.athletes # << >>
                   /\ flatten_athlete(a.athletes) = athlete
    /\ (out.op = "calculate_athlete_cycling_stats" /\ ~out.raised) =>
           \A athlete \in DOMAIN out.val :
               \E a \in {activities[k] : k \in 1..Len(activities)} :
                   /\ a.athletes # << >>
                   /\ flatten_athlete(a.athletes) = athlete

\* the athlete has a name: a first or a last name that is a non-empty string
HasName(athletes) ==
    \/ athletes[1].firstname \notin {None, << >>}
    \/ athletes[1].lastname \notin {None, << >>}

\* C16: every record listHeartRateZones returns has a resolvable athlete
\* name: a record with no activity, with an activity without athlete, or
\* with an athlete without name is discarded.
C16_EveryRecordHasAthleteName ==
    \A z \in Rows(hr_zones_df) :
        \E a \in StoredActivities(z.activity_id) :
            /\ a.athletes # << >>
            /\ HasName(a.athletes)

\* the part that holds: a returned record has an activity with an athlete
JoinedRecordsHaveAthlete ==
    \A z \in Rows(hr_zones_df) :
        \E a \in StoredActivities(z.activity_id) : a.athletes # << >>

\* a fetch that discarded the row of no activity and kept a joined one
JoinedRecordsWitness ==
    /\ hr_zones_df # NotFetched
    /\ Len(hr_zones_df) = 1
    /\ Len(heart_rate_zones) = 2
    /\ heart_rate_zones[2].activity_id = DanglingId

\* C17: no record returned by listActivities or by listHeartRateZones has
\* the normalized sport type Tennis (the raw sport type unwrapped and
\* mapped), whatever wrapper form it was stored in.
C17_NoExcludedSportType ==
    /\ \A r \in Rows(activities_df) :
           /\ r.sport_type # Tennis
           /\ CategoryMapping(clean_field_unwrap(Stored(r.id).sport_type)) # Tennis
    /\ \A z \in Rows(hr_zones_df) :
           /\ z.sport_type # Tennis
           /\ CategoryMapping(clean_field_unwrap(z.sport_type)) # Tennis

\* the part that holds: listActivities returns no Tennis in any stored
\* form, listHeartRateZones none stored bare
ExcludedWhereCompared ==
    /\ \A r \in Rows(activities_df) :
           /\ r.sport_type # Tennis
           /\ CategoryMapping(clean_field_unwrap(Stored(r.id).sport_type)) # Tennis
    /\ \A z \in Rows(hr_zones_df) : z.sport_type # Tennis

\* both fetches ran on a store holding a wrapped Tennis activity with
\* telemetry; listActivities returned nothing
ExcludedWitness ==
    /\ activities_df = << >>
    /\ hr_zones_df # NotFetched
    /\ Len(activities) = 1
    /\ activities[1].sport_type = Wrap(2, Tennis)
    /\ activities[1].athletes = AthleteA
    /\ Len(heart_rate_zones) >= 1

(***************************************************************************)
(* Ordering of the scoring output (checked under ScoringSpec)              *)
(***************************************************************************)
\* the position of the first scored record of an athlete
FirstRecord(scored, athlete_name) ==
    CHOOSE i \in 1..Len(scored) :
        /\ scored[i].athlete_name = athlete_name
        /\ \A j \in 1..(i - 1) : scored[j].athlete_name # athlete_name

\* C18: the athletes in the result of calculate_hr_zone_points come in
\* descending order of total points, and athletes with equal total points
\* in their insertion order, the order in which their first records come
\* in the input.
C18_DescendingThenInsertionOrder ==
    out.op = "calculate_hr_zone_points" =>
        \A k, l \in 1..Len(out.val) :
            k < l =>
                \/ out.val[k].zone_points > out.val[l].zone_points
                \/ /\ out.val[k].zone_points = out.val[l].zone_points
                   /\ FirstRecord(out.scored, out.val[k].athlete_name)
                          < FirstRecord(out.scored, out.val[l].athlete_name)

\* the part that holds: the total points never increase down the result
PointsDescending ==
    out.op = "calculate_hr_zone_points" =>
        \A k, l \in 1..Len(out.val) :
            k < l => out.val[k].zone_points >= out.val[l].zone_points

\* two athletes with different totals were scored, the greater one first
PointsDescendingWitness ==
    /\ out.op = "calculate_hr_zone_points"
    /\ Len(out.val) = 2
    /\ out.val[1].zone_points > out.val[2].zone_points
    /\ FirstRecord(out.scored, out.val[1].athlete_name)
           > FirstRecord(out.scored, out.val[2].athlete_name)

(***************************************************************************)
(* get_streak_badge, called with every streak length up to MaxStreakDays   *)
(***************************************************************************)
MaxStreakDays == 120

\* the thresholds tested in ascending order
get_streak_badge_ascending(streak_days) ==
    IF streak_days < 3
    THEN [emoji |-> "", name |-> "", color |-> "#808080"]
    ELSE IF streak_days >= 3
    THEN [emoji |-> "star", name |-> "Star", color |-> "#32CD32"]
    ELSE IF streak_days >= 7
    THEN [emoji |-> "lightning", name |-> "Lightning", color |-> "#1E90FF"]
    ELSE IF streak_days >= 14
    THEN [emoji |-> "fire", name |-> "Fire", color |-> "#FF4500"]
    ELSE [emoji |-> "trophy", name |-> "Legend", color |-> "#FFD700"]

\* the emoji are written by their names
get_streak_badge(streak_days) ==
    IF streak_days >= 30
    THEN [emoji |-> "trophy", name |-> "Legend", color |-> "#FFD700"]
    ELSE IF streak_days >= 14
    THEN [emoji |-> "fire", name |-> "Fire", color |-> "#FF4500"]
    ELSE IF streak_days >= 7
    THEN [emoji |-> "lightning", name |-> "Lightning", color |-> "#1E90FF"]
    ELSE IF streak_days >= 3
    THEN [emoji |-> "star", name |-> "Star", color |-> "#32CD32"]
    ELSE [emoji |-> "", name |-> "", color |-> "#808080"]

BadgeInit ==
    /\ COMPETITION_END = ShippedEnd
    /\ COMPETITION_WEEKS = ShippedWeeks
    /\ today = COMPETITION_START
    /\ activities = << >>
    /\ heart_rate_zones = << >>
    /\ activities_df = NotFetched
    /\ hr_zones_df = NotFetched
    /\ columns = NoColumns
    /\ admin = NotStarted
    /\ out = NoResult

\* the leaderboard asks for the badge of an athlete's streak
GetStreakBadge ==
    /\ \E streak_days \in 0..MaxStreakDays :
          out' = [op |-> "get_streak_badge", streak_days |-> streak_days,
                  val |-> get_streak_badge(streak_days)]
    /\ UNCHANGED <<frame, today, activities_df, hr_zones_df>>

BadgeNext == GetStreakBadge

BadgeSpec == BadgeInit /\ [][BadgeNext]_vars

\* C19: the badge is a function of the streak length alone: Legend from 30
\* days, Fire from 14 to 29, Lightning from 7 to 13, Star from 3 to 6, and
\* no badge below 3.
C19_BadgeOfStreak ==
    out.op = "get_streak_badge" =>
        /\ out.val.name =
               IF out.streak_days >= 30 THEN "Legend"
               ELSE IF 14 <= out.streak_days /\ out.streak_days < 30 THEN "Fire"
               ELSE IF 7 <= out.streak_days /\ out.streak_days < 14 THEN "Lightning"
               ELSE IF 3 <= out.streak_days /\ out.streak_days < 7 THEN "Star"
               ELSE ""
        /\ out.val.name = "" <=> out.val.emoji = ""

\* the badge of a streak of exactly 30 days
C19_Witness ==
    /\ out.op = "get_streak_badge"
    /\ out.streak_days = 30
    /\ out.val.name = "Legend"

(***************************************************************************)
(* Deduplication applied twice (checked under ScoringSpec): the fetch      *)
(* deduplicates, calculate_hr_zone_points deduplicates what it is given.   *)
(***************************************************************************)
\* C20: deduplication by activity identifier is idempotent: applied to a
\* record set that was deduplicated once it returns the same records in
\* the same order.
C20_DeduplicationIdempotent ==
    /\ hr_zones_df # NotFetched => drop_duplicates(hr_zones_df) = hr_zones_df
    /\ out.op = "calculate_hr_zone_points" =>
           /\ drop_duplicates(out.scored) = out.scored
           /\ out.df = hr_zones_df => out.scored = out.df

\* the fetch dropped two later rows of an activity, and the frame it
\* returned was scored
C20_Witness ==
    /\ hr_zones_df # NotFetched
    /\ Len(hr_zones_df) = 1
    /\ Len(heart_rate_zones) = 3
    /\ \A k \in 1..3 : heart_rate_zones[k].activity_id = hr_zones_df[1].activity_id
    /\ out.op = "calculate_hr_zone_points"
    /\ out.df = hr_zones_df
    /\ out.scored = hr_zones_df

(***************************************************************************)
(* Weekly values specification: the shipped calendar, up to                *)
(* MaxMilesActivities stored activities of two athletes on the last day of *)
(* week 1 and the first day of week 2, of cycling and other sport types,   *)
(* each with or without a heart-rate-zone row.                             *)
(***************************************************************************)
MaxMilesActivities == 2

\* stored sport type and elevation gain: reported as Peloton, Bike and Run
MilesKinds == {<<Ride, 0>>, <<Ride, 100>>, <<Run, 0>>}
MilesDates == {COMPETITION_START + 6, COMPETITION_START + 7}
MilesDistance(id) == IF id % 2 = 1 THEN 16093 ELSE 8000
MilesActivity(id, athletes, start_date, kind) ==
    [id |-> id, athletes |-> athletes, name |-> Ride, sport_type |-> kind[1],
     total_elevation_gain |-> <<kind[2]>>, start_date |-> start_date,
     distance |-> MilesDistance(id)]

MilesInit ==
    /\ COMPETITION_END = ShippedEnd
    /\ COMPETITION_WEEKS = ShippedWeeks
    /\ today = COMPETITION_START
    /\ \E n \in 0..MaxMilesActivities :
          \E who \in [1..n -> {AthleteA, AthleteB}], day \in [1..n -> MilesDates],
             kind \in [1..n -> MilesKinds], telemetry \in [1..n -> BOOLEAN] :
              /\ activities = [i \in 1..n |->
                                  MilesActivity(i, who[i], day[i], kind[i])]
              /\ heart_rate_zones = telemetry_rows(n, telemetry)
    /\ activities_df = NotFetched
    /\ hr_zones_df = NotFetched
    /\ columns = NoColumns
    /\ admin = NotStarted
    /\ out = NoResult

MilesNext ==
    \/ FetchActivities
    \/ FetchHeartRateZones
    \/ CalculateWeeklyAthletePerformance

MilesSpec == MilesInit /\ [][MilesNext]_vars

\* the rows of df of athlete a dated within week w
RowsInWeek(df, a, w) ==
    SelectSeq(df, LAMBDA r :
        /\ r.athlete_name = a
        /\ r.start_date >= COMPETITION_START + 7 * (w - 1)
        /\ r.start_date <= Min(COMPETITION_START + 7 * w - 1, COMPETITION_END))
CyclingMetersInWeek(df, a, w) ==
    sum_distance(SelectSeq(RowsInWeek(df, a, w),
                           LAMBDA r : r.sport_type \in {Ride, VirtualRide, Peloton, Bike}))
WeeklyCounts(row, act_df) ==
    row.Activities = Len(RowsInWeek(act_df, row.Athlete, row.Week_Number))

\* C21 as stated: in the row for (week w, athlete a) the activity count is
\* the number of all of a's activity records dated within the week, and the
\* cycling distance is the sum of the distances of a's activities of the
\* week of a cycling sport type, divided by 1609.344.
C21_CountAndExactMiles ==
    (out.op = "calculate_weekly_athlete_performance" /\ ~Raised(out.val)) =>
        \A k \in 1..Len(out.val) :
            /\ WeeklyCounts(out.val[k], out.act_df)
            /\ out.val[k].Cycling_Miles10 * 1609344 =
                   10000 * CyclingMetersInWeek(out.act_df, out.val[k].Athlete,
                                               out.val[k].Week_Number)

\* C21: in the row for (week w, athlete a) the activity count is the number
\* of all of a's activity records dated within the week, and the cycling
\* distance is the sum of the distances of a's activities of the week of a
\* cycling sport type, divided by 1609.344 and rounded to the nearest tenth
\* of a mile; it is 0 when there are none.
C21_CountAndRoundedMiles ==
    (out.op = "calculate_weekly_athlete_performance" /\ ~Raised(out.val)) =>
        \A k \in 1..Len(out.val) :
            LET meters == CyclingMetersInWeek(out.act_df, out.val[k].Athlete,
                                              out.val[k].Week_Number)
                diff == out.val[k].Cycling_Miles10 * 1609344 - 10000 * meters
            IN /\ WeeklyCounts(out.val[k], out.act_df)
               /\ 2 * diff <= 1609344
               /\ 2 * diff >= -1609344
               /\ meters = 0 => out.val[k].Cycling_Miles10 = 0

\* an athlete with a ride of 16093 m and a run in one week: two activities,
\* 10.0 miles
C21_Witness ==
    /\ out.op = "calculate_weekly_athlete_performance"
    /\ ~Raised(out.val)
    /\ \E k \in 1..Len(out.val) :
          /\ out.val[k].Activities = 2
          /\ out.val[k].Cycling_Miles10 = 100
          /\ \E i, j \in 1..Len(out.act_df) :
                /\ out.act_df[i].athlete_name = out.val[k].Athlete
                /\ out.act_df[j].athlete_name = out.val[k].Athlete
                /\ out.act_df[i].sport_type = Run
                /\ out.act_df[j].sport_type \in {Peloton, Bike}
                /\ out.act_df[i].start_date = out.act_df[j].start_date

(***************************************************************************)
(* Wide calendar specification: every configuration of 1..MaxWeeks weeks   *)
(* and an end date on or after the start, also those in which the weeks    *)
(* run out before the end date.                                            *)
(***************************************************************************)
WideConfigs ==
    [end : COMPETITION_START..(COMPETITION_START + 7 * MaxWeeks + Margin),
     weeks : 1..MaxWeeks]
    \cup {[end |-> ShippedEnd, weeks |-> ShippedWeeks]}

WideCalendarInit ==
    /\ \E c \in WideConfigs :
          /\ COMPETITION_END = c.end
          /\ COMPETITION_WEEKS = c.weeks
    /\ today \in {COMPETITION_START, COMPETITION_END}
    /\ activities = << >>
    /\ heart_rate_zones = << >>
    /\ activities_df = NotFetched
    /\ hr_zones_df = NotFetched
    /\ columns = NoColumns
    /\ admin = NotStarted
    /\ out = NoResult

WideCalendarNext ==
    \/ CallWeekDates
    \/ CallCurrentWeek
    \/ CallCurrentWeekDates

WideCalendarSpec == WideCalendarInit /\ [][WideCalendarNext]_vars

CeilDiv(a, b) == (a + b - 1) \div b

\* C22: get_competition_week_dates numbers the weeks consecutively from 1,
\* week k starts 7 * (k - 1) days after the competition start, and it
\* returns min(COMPETITION_WEEKS, ceil((end - start + 1) / 7)) weeks; for
\* the shipped calendar these are 8 weeks, week 1 from 2025-08-11 (day 0)
\* to 2025-08-17 (day 6), week 8 ending 2025-10-05 (day 55).
C22_WeekSequence ==
    out.op = "get_competition_week_dates" =>
        /\ Len(out.val) =
               Min(COMPETITION_WEEKS,
                   CeilDiv(COMPETITION_END - COMPETITION_START + 1, 7))
        /\ \A k \in 1..Len(out.val) :
               /\ out.val[k].week = k
               /\ out.val[k].start = COMPETITION_START + 7 * (k - 1)
        /\ (COMPETITION_END = 55 /\ COMPETITION_WEEKS = 8) =>
               /\ Len(out.val) = 8
               /\ out.val[1] = [week |-> 1, start |-> 0, end |-> 6]
               /\ out.val[8].end = 55

\* the shipped calendar
C22_Witness ==
    /\ out.op = "get_competition_week_dates"
    /\ COMPETITION_END = 55
    /\ COMPETITION_WEEKS = 8
    /\ Len(out.val) = 8

\* the end date is reached before the weeks are exhausted
C22_EndFirstWitness ==
    /\ out.op = "get_competition_week_dates"
    /\ Len(out.val) >= 2
    /\ Len(out.val) < COMPETITION_WEEKS

\* the weeks are exhausted before the end date
C22_WeeksFirstWitness ==
    /\ out.op = "get_competition_week_dates"
    /\ Len(out.val) = COMPETITION_WEEKS
    /\ COMPETITION_END > out.val[Len(out.val)].start + 6

(***************************************************************************)
(* Consistency of the three calendar functions (checked under              *)
(* CalendarSpec, where the end date lies within the configured weeks).     *)
(***************************************************************************)
\* C23: for every today inside the competition window,
\* get_current_competition_week returns a week number n in
\* 1..COMPETITION_WEEKS, get_competition_week_dates holds a week numbered
\* n, and get_current_competition_week_dates returns exactly the
\* (start, end) pair of that week.
C23_CalendarConsistent ==
    (today >= COMPETITION_START /\ today <= COMPETITION_END) =>
        /\ out.op = "get_current_competition_week" =>
               /\ out.val.week \in 1..COMPETITION_WEEKS
               /\ \E k \in 1..Len(get_competition_week_dates) :
                      get_competition_week_dates[k].week = out.val.week
        /\ out.op = "get_current_competition_week_dates" =>
               \E k \in 1..Len(get_competition_week_dates) :
                   /\ get_competition_week_dates[k].week =
                          get_current_competition_week.week
                   /\ out.val = <<get_competition_week_dates[k].start,
                                  get_competition_week_dates[k].end>>

\* the bounds asked for on a day of a clipped last week
C23_Witness ==
    /\ out.op = "get_current_competition_week_dates"
    /\ today >= COMPETITION_START
    /\ today <= COMPETITION_END
    /\ get_current_competition_week.week >= 2
    /\ out.val[2] = COMPETITION_END
    /\ out.val[2] < out.val[1] + 6

(***************************************************************************)
(* The weeks partition the window (checked under WeeklySpec: the shipped   *)
(* calendar, every heart-rate-zone record worth 10 points).                *)
(***************************************************************************)
\* the weeks of the list that hold the date
WeeksHolding(weeks, date) ==
    {k \in 1..Len(weeks) : weeks[k].start <= date /\ date <= weeks[k].end}

RECURSIVE SumOfPoints(_)
SumOfPoints(rows) ==
    IF rows = << >> THEN 0 ELSE rows[1].Points + SumOfPoints(Tail(rows))

\* C24: every date of the competition window lies in exactly one week of
\* get_competition_week_dates, so every heart-rate-zone record dated inside
\* the window is counted in the points of exactly one week by
\* calculate_weekly_athlete_performance, and a record dated outside the
\* window is counted in none.
C24_WeeksPartitionWindow ==
    LET weeks == get_competition_week_dates
    IN /\ \A date \in COMPETITION_START..COMPETITION_END :
              Cardinality(WeeksHolding(weeks, date)) = 1
       /\ (out.op = "calculate_weekly_athlete_performance" /\ ~Raised(out.val)) =>
              /\ \A k \in 1..Len(out.val) :
                     out.val[k].Points =
                         10 * Cardinality(
                             {i \in 1..Len(out.hr_df) :
                                 /\ out.hr_df[i].athlete_name = out.val[k].Athlete
                                 /\ out.val[k].Week_Number
                                        \in WeeksHolding(weeks, out.hr_df[i].start_date)})
              /\ \A i \in 1..Len(out.hr_df) :
                     Cardinality(
                         {k \in 1..Len(out.val) :
                             /\ out.val[k].Athlete = out.hr_df[i].athlete_name
                             /\ out.val[k].Week_Number
                                    \in WeeksHolding(weeks, out.hr_df[i].start_date)})
                     = IF InWindow(out.hr_df[i].start_date) THEN 1 ELSE 0
              /\ SumOfPoints(out.val) =
                     10 * Cardinality({i \in 1..Len(out.hr_df) :
                                          InWindow(out.hr_df[i].start_date)})

\* one record on the last day of the window, counted in week 8, and one on
\* the day after, counted nowhere
C24_Witness ==
    /\ out.op = "calculate_weekly_athlete_performance"
    /\ ~Raised(out.val)
    /\ Len(out.hr_df) = 2
    /\ \E i, j \in 1..2 :
          /\ out.hr_df[i].start_date = COMPETITION_END
          /\ out.hr_df[j].start_date = COMPETITION_END + 1
    /\ Len(out.val) = 1
    /\ out.val[1].Week_Number = 8
    /\ out.val[1].Points = 10

(***************************************************************************)
(* Runs specification: up to MaxAdminRuns runs of the reclassification     *)
(* utility, one after the other, over a store of up to MaxRunActivities    *)
(* activities.  Read specification: one run over such a store, which the   *)
(* dashboard reads at any moment.                                          *)
(***************************************************************************)
MaxRunActivities == 2

\* rides and runs, with and without elevation gain
RunsSportTypes == {Ride, Run}
RunsElevations == {<<0>>, <<120>>}

RunsInit ==
    /\ COMPETITION_END = ShippedEnd
    /\ COMPETITION_WEEKS = ShippedWeeks
    /\ today = COMPETITION_START
    /\ \E n \in 0..MaxRunActivities :
          \E st \in [1..n -> RunsSportTypes], gain \in [1..n -> RunsElevations] :
              activities = [k \in 1..n |-> AdminActivity(k, st[k], gain[k])]
    /\ heart_rate_zones = << >>
    /\ activities_df = NotFetched
    /\ hr_zones_df = NotFetched
    /\ columns = NoColumns
    /\ admin = NotStarted
    /\ out = NoResult

RunsNext ==
    \/ AdminStart
    \/ AdminConfirm
    \/ AdminUpdate
    \/ AdminSummary
    \/ AdminVerify
    \/ AdminRunAgain

RunsSpec == RunsInit /\ [][RunsNext]_vars

\* raw and wrapped rides and runs, with, without and with unknown
\* elevation gain
AdminReadInit ==
    /\ COMPETITION_END = ShippedEnd
    /\ COMPETITION_WEEKS = ShippedWeeks
    /\ today = COMPETITION_START
    /\ \E n \in 0..MaxRunActivities :
          \E st \in [1..n -> AdminSportTypes], gain \in [1..n -> Elevations] :
              activities = [k \in 1..n |-> AdminActivity(k, st[k], gain[k])]
    /\ heart_rate_zones = << >>
    /\ activities_df = NotFetched
    /\ hr_zones_df = NotFetched
    /\ columns = NoColumns
    /\ admin = NotStarted
    /\ out = NoResult

\* one run, and the dashboard reading the store at any moment
AdminReadNext ==
    \/ AdminStart
    \/ AdminConfirm
    \/ AdminUpdate
    \/ AdminSummary
    \/ AdminVerify
    \/ FetchActivities

AdminReadSpec == AdminReadInit /\ [][AdminReadNext]_vars

\* C25: after any prefix of a run of the utility, whichever updates
\* succeeded or failed, fetch_activities_by_date_range reports for every
\* activity the sport type it reported before the run started: a frame
\* fetched at any earlier moment is the frame the same fetch returns now.
C25_ReadViewUnchanged ==
    (activities_df # NotFetched /\ out.op = "fetch_activities_by_date_range") =>
        fetch_activities_by_date_range(out.args[1], out.args[2]) = activities_df

\* a frame fetched before the question was answered, and the store after
\* an update of the run was written
C25_Witness ==
    /\ activities_df # NotFetched
    /\ admin.pc = "verified"
    /\ admin.updated_count >= 1
    /\ \E k \in 1..Len(activities) :
          /\ activities[k].sport_type = Bike
          /\ admin.df[k].sport_type # Bike
          /\ \E j \in 1..Len(activities_df) :
                /\ activities_df[j].id = activities[k].id
                /\ activities_df[j].sport_type = Bike

(***************************************************************************)
(* What a run writes (checked under AdminSpec).                            *)
(***************************************************************************)
\* the run has read the table into df
AdminHasRead == "df" \in DOMAIN admin
\* the run has entered its update loop
AdminInLoop == admin.pc \in {"update", "summary", "verified"}

\* an activity is a candidate: its stored sport type is Ride or Peloton,
\* bare or in one of the three wrapped forms, and its elevation gain is
\* positive
IsCandidate(a) ==
    /\ a.sport_type \in {Wrap(f, v) : f \in 0..3, v \in {Ride, Peloton}}
    /\ Len(a.total_elevation_gain) = 1
    /\ a.total_elevation_gain[1] > 0

\* C26: during a run the update is issued only for activities that, in the
\* table read at the start of the run, normalize to Peloton and have an
\* elevation gain above zero (null counted as zero), at most once per
\* activity; the one row it names gets the sport type Bike, every other
\* activity's stored sport type and every other field stays as it was.
C26_WriteFootprint ==
    AdminHasRead =>
        /\ Len(activities) = Len(admin.df)
        /\ \A k \in 1..Len(activities) :
               \/ activities[k] = admin.df[k]
               \/ /\ activities[k] = [admin.df[k] EXCEPT !.sport_type = Bike]
                  /\ IsCandidate(admin.df[k])
                  /\ AdminInLoop
                  /\ \E j \in 1..Len(admin.attempted) :
                         admin.attempted[j] = admin.df[k].id
        /\ AdminInLoop =>
               /\ \A j \in 1..Len(admin.attempted) :
                      \E k \in 1..Len(admin.df) :
                          /\ admin.df[k].id = admin.attempted[j]
                          /\ IsCandidate(admin.df[k])
               /\ \A j, l \in 1..Len(admin.attempted) :
                      admin.attempted[j] = admin.attempted[l] => j = l

\* a run over a ride with elevation gain, a ride without and a run: the
\* first was written, the other two were not
C26_Witness ==
    /\ admin.pc = "summary"
    /\ Len(activities) = 3
    /\ admin.attempted = <<admin.df[1].id>>
    /\ admin.df[1].sport_type # Bike
    /\ activities[1].sport_type = Bike
    /\ admin.df[2].sport_type = Ride
    /\ admin.df[3].sport_type = Run
    /\ activities[2] = admin.df[2]
    /\ activities[3] = admin.df[3]

\* C27: the utility issues no write before the operator has confirmed; if
\* the operator declines, or there are no activities, no Peloton
\* activities or no Peloton activities with elevation, the run ends with
\* zero writes.
C27_ConfirmationGate ==
    AdminHasRead =>
        /\ AdminInLoop => admin.response_lower = "y"
        /\ ~AdminInLoop => activities = admin.df
        /\ admin.pc = "cancelled" =>
               admin.response_lower # "y" /\ activities = admin.df
        /\ (\A k \in 1..Len(admin.df) : ~IsCandidate(admin.df[k])) =>
               admin.pc = "returned" /\ activities = admin.df
        /\ admin.pc = "returned" =>
               \A k \in 1..Len(admin.df) : ~IsCandidate(admin.df[k])

\* the operator answered with the empty line where there was a candidate
C27_Witness ==
    /\ admin.pc = "cancelled"
    /\ admin.response_lower = ""
    /\ \E k \in 1..Len(admin.df) : IsCandidate(admin.df[k])
    /\ activities = admin.df

\* the run ended at once: no activity has both the type and the elevation
C27_ReturnedWitness ==
    /\ admin.pc = "returned"
    /\ Len(admin.df) >= 2
    /\ activities = admin.df

(***************************************************************************)
(* A run after a run (checked under RunsSpec).                             *)
(***************************************************************************)
\* the run before this one
PreviousRun == admin.previous[Len(admin.previous)]

\* the candidates this run selected
CurrentCandidates ==
    IF "with_elevation" \in DOMAIN admin
    THEN {admin.with_elevation[k].id : k \in 1..Len(admin.with_elevation)}
    ELSE {}

\* the candidates of a run that went through its loop, by what the store
\* answered
CandidatesAnswered(run, answers) ==
    {run.with_elevation[k].id :
        k \in {j \in 1..Len(run.with_elevation) : run.responses[j] \in answers}}

AfterCompletedRun ==
    /\ AdminHasRead
    /\ admin.previous # << >>
    /\ PreviousRun.pc = "verified"

\* C28 as stated: after a confirmed run in which every update succeeded
\* the next run finds no candidate and issues no write; after a run with
\* failures the candidates of the next run are exactly the activities whose
\* update the run counted as failed.
C28_NextRunRetriesCountedFailures ==
    AfterCompletedRun =>
        /\ PreviousRun.failed_count = 0 =>
               /\ CurrentCandidates = {}
               /\ admin.pc = "returned"
               /\ activities = admin.df
        /\ CurrentCandidates =
               CandidatesAnswered(PreviousRun, StoreResponses \ {"data"})

\* C28: after a confirmed run in which every update succeeded the next run
\* finds no candidate and issues no write; after a run with failures the
\* candidates of the next run are exactly the activities whose update did
\* not reach the store, each of which the run counted as failed.
C28_NextRunRetriesUnwritten ==
    AfterCompletedRun =>
        /\ PreviousRun.failed_count = 0 =>
               /\ CurrentCandidates = {}
               /\ admin.pc = "returned"
               /\ activities = admin.df
        /\ CurrentCandidates =
               CandidatesAnswered(PreviousRun, {"no data", "raised"})
        /\ CurrentCandidates \subseteq
               CandidatesAnswered(PreviousRun, StoreResponses \ {"data"})

\* the second run, after a run of two candidates of which the first was
\* updated and the second failed, asks about the second alone
C28_Witness ==
    /\ AfterCompletedRun
    /\ admin.pc = "confirm"
    /\ PreviousRun.responses = <<"data", "no data">>
    /\ CurrentCandidates = {PreviousRun.with_elevation[2].id}

\* the second run after a run in which every update succeeded
C28_ConvergedWitness ==
    /\ AfterCompletedRun
    /\ admin.pc = "returned"
    /\ PreviousRun.updated_count = 2
    /\ PreviousRun.failed_count = 0

(***************************************************************************)
(* Normalizer copies specification: one stored activity whose sport type   *)
(* is null or any bare or wrapped value, with, without and with unknown    *)
(* elevation gain; the four copies of the normalizer are applied to it,    *)
(* the dashboard reads it and the utility selects its candidates.          *)
(***************************************************************************)
CopiesInit ==
    /\ COMPETITION_END = ShippedEnd
    /\ COMPETITION_WEEKS = ShippedWeeks
    /\ today = COMPETITION_START
    /\ \E sport_type \in RawNames, total_elevation_gain \in Elevations :
          activities = <<AdminActivity(1, sport_type, total_elevation_gain)>>
    /\ heart_rate_zones = << >>
    /\ activities_df = NotFetched
    /\ hr_zones_df = NotFetched
    /\ columns = NoColumns
    /\ admin = NotStarted
    /\ out = NoResult

\* df['sport_type'].apply(...) of each of the four copies, on one row
ApplyNormalizers ==
    /\ \E k \in 1..Len(activities) :
          out' = [op |-> "apply",
                  value |-> activities[k].sport_type,
                  clean_field |-> clean_field(activities[k].sport_type),
                  clean_sport_type_admin |->
                      clean_sport_type_admin(activities[k].sport_type),
                  clean_sport_type_nested |->
                      clean_sport_type_nested(activities[k].sport_type),
                  clean_sport_type |-> clean_sport_type(activities[k].sport_type)]
    /\ UNCHANGED <<frame, today, activities_df, hr_zones_df>>

CopiesNext ==
    \/ ApplyNormalizers
    \/ FetchActivities
    \/ AdminStart

CopiesSpec == CopiesInit /\ [][CopiesNext]_vars

\* the activities the read path displays as Bike while their stored type
\* normalizes to Peloton
DisplayedBikeStoredPeloton ==
    {r.id : r \in {row \in Rows(activities_df) :
                      /\ row.sport_type = Bike
                      /\ clean_field(Stored(row.id).sport_type) = Peloton}}

\* C29: for every input value the four copies of the sport-type normalizer
\* return the same result, so the utility selects as candidates exactly
\* the activities that the read path displays as Bike while their stored
\* type still normalizes to Peloton.
C29_CopiesAgree ==
    /\ out.op = "apply" =>
           /\ out.clean_sport_type_admin = out.clean_field
           /\ out.clean_sport_type_nested = out.clean_field
           /\ out.clean_sport_type = out.clean_field
    /\ (AdminHasRead /\ activities_df # NotFetched) =>
           CurrentCandidates = DisplayedBikeStoredPeloton

\* the copies applied to a ride wrapped in double quotes
C29_Witness ==
    /\ out.op = "apply"
    /\ out.value = Wrap(2, Ride)
    /\ out.clean_sport_type_admin = Peloton
    /\ out.clean_sport_type_nested = Peloton

\* a wrapped ride with elevation gain: read as Bike, selected as candidate
C29_CandidateWitness ==
    /\ AdminHasRead
    /\ activities_df # NotFetched
    /\ activities[1].sport_type = Wrap(1, Ride)
    /\ CurrentCandidates = {1}
    /\ DisplayedBikeStoredPeloton = {1}

(***************************************************************************)
(* The calculations and the frames they are given (checked under           *)
(* EmptyInputSpec, which runs all five on the cached frames).              *)
(***************************************************************************)
Calculations ==
    {"calculate_weekly_athlete_performance", "calculate_athlete_cycling_stats",
     "calculate_hr_zone_points", "calculate_weekly_mileage",
     "calculate_athlete_streaks"}

\* C30: calling calculate_weekly_athlete_performance,
\* calculate_athlete_cycling_stats, calculate_hr_zone_points,
\* calculate_weekly_mileage or calculate_athlete_streaks leaves the
\* activity and heart-rate-zone frames passed in unchanged: no column is
\* added to the columns the fetch gave them (which hold no column 'date').
C30_InputFramesUnchanged ==
    out.op \in Calculations =>
        /\ "date" \notin columns.activities_df
        /\ "date" \notin columns.hr_zones_df

====
